---- MODULE Spec2Model ----
(***************************************************************************)
(* Library-management REST API, iteration v14 (book_management_flask_v14): *)
(* the in-process TTL cache with prefix invalidation, the cache key        *)
(* derivation, the cached list handlers with their write handlers, and the *)
(* token_required authentication gate.                                     *)
(*                                                                         *)
(* Strings are sequences of one-character strings, so that str.startswith, *)
(* string concatenation and the digest's alphabet are computed, not        *)
(* assumed.  Python's None is the empty sequence and a value v is <<v>>.   *)
(***************************************************************************)
EXTENDS Integers, Sequences, FiniteSets, TLC

VARIABLES
    CACHE,      \* api.CACHE: key -> [data, time, ttl]
    now,        \* time.time()
    ticks,      \* number of clock advances so far
    call,       \* the last cache API call: its argument and its return value
    mru,        \* the most recent cache_set call whose entry no deletion removed
    kin,        \* make_cache_key inputs under test: two (path, params) pairs
    kout,       \* the keys computed for kin (<<>> before the call)
    titles,     \* table book_title: id -> [title]
    copies,     \* table book_copy: id -> [book_title_id, barcode, available]
    borrowings, \* table borrowing: id -> [book_copy_id, user_id, returned]
    resp,       \* the last handler's response and the commits and invalidations it made
    stale,      \* the cached keys whose entry was computed before the latest
                \* committed write of their resource family
    areq,       \* the request at the gate: path, auth_token cookie, Authorization header
    config,     \* app.config
    users,      \* table user: the ids of its rows
    outcome,    \* what the gate did with areq (None before it ran)
    thr,        \* the requests handled concurrently: thread -> its position and locals
    origin      \* key -> the time at which the value cached under it was computed

vars == <<CACHE, now, ticks, call, mru, kin, kout, titles, copies, borrowings, resp, stale,
          areq, config, users, outcome, thr, origin>>

authVars == <<areq, config, users, outcome>>

raceVars == <<thr, origin>>

dbVars == <<titles, copies, borrowings>>

handlerVars == <<titles, copies, borrowings, resp, stale>>

cacheVars == <<CACHE, now, ticks, call, mru>>

keyVars == <<kin, kout>>

-----------------------------------------------------------------------------
(* Bounds of the model *)

\* largest number of query parameters in one parameter map
MaxParams == 2
\* number of clock advances explored
MaxTicks == 1
\* largest number of entries the cache holds when the cache API is called directly
MaxEntries == 2
\* largest number of entries the cache holds when the handlers fill it
MaxCached == 1
\* largest number of rows of book_title, of book_copy and of borrowing
MaxTitles == 1
MaxCopies == 1
MaxBorrowings == 1

-----------------------------------------------------------------------------
(* Strings *)

None == <<>>

Some(v) == <<v>>

\* the printable ASCII characters, code 32 to 126, in code order (the backslash
\* and the backtick are spelled out: no string of the model holds one)
Printable ==
    <<" ", "!", "\"", "#", "$", "%", "&", "'", "(", ")", "*", "+", ",", "-", ".", "/",
      "0", "1", "2", "3", "4", "5", "6", "7", "8", "9", ":", ";", "<", "=", ">", "?",
      "@", "A", "B", "C", "D", "E", "F", "G", "H", "I", "J", "K", "L", "M", "N", "O",
      "P", "Q", "R", "S", "T", "U", "V", "W", "X", "Y", "Z", "[", "backslash", "]", "^", "_",
      "backtick", "a", "b", "c", "d", "e", "f", "g", "h", "i", "j", "k", "l", "m", "n", "o",
      "p", "q", "r", "s", "t", "u", "v", "w", "x", "y", "z", "{", "|", "}", "~">>

\* the code of each printable character
OrdTable == [c \in {Printable[i] : i \in 1..Len(Printable)} |->
                31 + (CHOOSE i \in 1..Len(Printable) : Printable[i] = c)]

\* ord(c) of a printable character
Ord(c) == OrdTable[c]

\* str.startswith
startswith(s, prefix) ==
    /\ Len(prefix) <= Len(s)
    /\ \A i \in 1..Len(prefix) : s[i] = prefix[i]

\* Python's str ordering: lexicographic by code point
RECURSIVE StrLess(_, _)
StrLess(a, b) ==
    IF b = <<>> THEN FALSE
    ELSE IF a = <<>> THEN TRUE
    ELSE IF Head(a) = Head(b) THEN StrLess(Tail(a), Tail(b))
    ELSE Ord(Head(a)) < Ord(Head(b))

\* the string literals of the source
PATH_BOOK_TITLES == <<"/", "a", "p", "i", "/", "b", "o", "o", "k", "_", "t", "i", "t", "l", "e", "s">>

PATH_BOOK_COPIES == <<"/", "a", "p", "i", "/", "b", "o", "o", "k", "_", "c", "o", "p", "i", "e", "s">>

PATH_V2_BOOK_COPIES ==
    <<"/", "a", "p", "i", "/", "v", "2", "/", "b", "o", "o", "k", "-", "c", "o", "p", "i", "e", "s">>

STR_page == <<"p", "a", "g", "e">>

STR_size == <<"s", "i", "z", "e">>

STR_search == <<"s", "e", "a", "r", "c", "h">>

HexDigits == <<"0", "1", "2", "3", "4", "5", "6", "7", "8", "9", "a", "b", "c", "d", "e", "f">>

-----------------------------------------------------------------------------
(* make_cache_key: json.dumps(params or {}, sort_keys=True), then the hex    *)
(* digest of "path|params".  A parameter map is the sequence of its items   *)
(* in insertion order (a Python dict), each item [k |-> key, v |-> value].  *)

\* the items of a map without the item at position i
DropAt(items, i) == [j \in 1..(Len(items) - 1) |-> IF j < i THEN items[j] ELSE items[j + 1]]

\* sort_keys=True: the items ordered by key
RECURSIVE SortedItems(_)
SortedItems(items) ==
    IF items = <<>> THEN <<>>
    ELSE LET i == CHOOSE i \in 1..Len(items) :
                      \A j \in 1..Len(items) : j = i \/ StrLess(items[i].k, items[j].k)
         IN  <<items[i]>> \o SortedItems(DropAt(items, i))

\* json.dumps of a str (no character of the model needs escaping)
JsonStr(s) == <<"\"">> \o s \o <<"\"">>

RECURSIVE JsonItems(_)
JsonItems(items) ==
    IF items = <<>> THEN <<>>
    ELSE JsonStr(Head(items).k) \o <<":", " ">> \o JsonStr(Head(items).v)
         \o (IF Len(items) > 1 THEN <<",", " ">> ELSE <<>>)
         \o JsonItems(Tail(items))

\* json.dumps(params, sort_keys=True) of a dict of str to str
json_dumps_sorted(params) == <<"{">> \o JsonItems(SortedItems(params)) \o <<"}">>

\* width of the modelled digest, in hex digits
DigestHexLen == 6

\* 16^DigestHexLen
DigestModulus == 16777216

\* one mixing step per character of s[lo..hi], in order, from h; the string is
\* folded by halves, the left half evaluated before the right one is entered
RECURSIVE DigestFold(_, _, _, _)
DigestFold(h, s, lo, hi) ==
    IF lo > hi THEN h
    ELSE IF lo = hi THEN (h * 33 + Ord(s[lo])) % DigestModulus
    ELSE LET mid == (lo + hi) \div 2
             left == DigestFold(h, s, lo, mid)
         IN  IF left < DigestModulus THEN DigestFold(left, s, mid + 1, hi) ELSE left

RECURSIVE HexOf(_, _)
HexOf(n, width) ==
    IF width = 0 THEN <<>>
    ELSE HexOf(n \div 16, width - 1) \o <<HexDigits[(n % 16) + 1]>>

\* hashlib.sha1(s.encode()).hexdigest(): a fixed-width lowercase hex digest that
\* mixes every character of s (SHA-1's 160 bits are cut to 24 in the model)
sha1_hexdigest(s) == HexOf(DigestFold(5381, s, 1, Len(s)), DigestHexLen)

\* the string that is digested: f"{path}|{params}"
KeyPreimage(path, params) == path \o <<"|">> \o json_dumps_sorted(params)

\* a key derived without the path
make_cache_key_NoPath(path, params) == sha1_hexdigest(KeyPreimage(<<>>, params))

\* a key derived from the parameters in insertion order
make_cache_key_Unsorted(path, params) ==
    sha1_hexdigest(path \o <<"|">> \o <<"{">> \o JsonItems(params) \o <<"}">>)

make_cache_key(path, params) == sha1_hexdigest(KeyPreimage(path, params))

-----------------------------------------------------------------------------
(* Inputs *)

ParamKeys == {STR_page, STR_size, STR_search}

ParamValues == {<<"1">>, <<"2">>}

\* the parameter maps: at most MaxParams items, no key twice, any insertion order
ParamMaps ==
    {m \in UNION {[1..n -> [k : ParamKeys, v : ParamValues]] : n \in 0..MaxParams} :
        \A i, j \in 1..Len(m) : i # j => m[i].k # m[j].k}

\* the key/value pairs of a map, forgetting the insertion order
ItemSet(m) == {m[i] : i \in 1..Len(m)}

\* the logical paths that are cached
Paths ==
    {PATH_BOOK_TITLES \o <<"_", "v", "1">>, PATH_BOOK_TITLES \o <<"_", "v", "2">>,
     PATH_BOOK_COPIES, PATH_V2_BOOK_COPIES}

-----------------------------------------------------------------------------
(* The cache: CACHE maps a key to its entry [data, time, ttl] *)

CACHE_TTL == 60

\* the entry is older than its ttl
Expired(entry, t) == t - entry.time > entry.ttl

\* a dict without one key
DictDel(d, key) == [k \in DOMAIN d \ {key} |-> d[k]]

\* a dict with d[key] = value
DictPut(d, key, value) == [k \in DOMAIN d \cup {key} |-> IF k = key THEN value ELSE d[k]]

\* an entry as old as its ttl already counts as expired
cache_get_AtTtlExpired(C, key, t) ==
    IF key \notin DOMAIN C THEN None
    ELSE IF t - C[key].time >= C[key].ttl THEN None
    ELSE Some(C[key].data)

\* what cache_get(key) returns at time t
cache_get(C, key, t) ==
    IF key \notin DOMAIN C THEN None
    ELSE IF Expired(C[key], t) THEN None
    ELSE Some(C[key].data)

\* a lookup that leaves the expired entry in the store
cache_get_store_NoPurge(C, key, t) == C

\* the store after cache_get(key) at time t
cache_get_store(C, key, t) ==
    IF key \notin DOMAIN C THEN C
    ELSE IF Expired(C[key], t) THEN DictDel(C, key)
    ELSE C

\* a set that keeps the time stamp of the entry it replaces
cache_set_KeepsStamp(C, key, value, ttl, t) ==
    DictPut(C, key, [data |-> value, time |-> IF key \in DOMAIN C THEN C[key].time ELSE t,
                     ttl |-> ttl])

\* a set that rebinds CACHE to a dict holding the new entry alone
cache_set_Rebinds(C, key, value, ttl, t) ==
    [k \in {key} |-> [data |-> value, time |-> t, ttl |-> ttl]]

\* the store after cache_set(key, value, ttl) at time t
cache_set(C, key, value, ttl, t) ==
    DictPut(C, key, [data |-> value, time |-> t, ttl |-> ttl])

\* the store after cache_delete_prefix(prefix)
cache_delete_prefix(C, prefix) ==
    [k \in {key \in DOMAIN C : ~startswith(key, prefix)} |-> C[k]]

-----------------------------------------------------------------------------
(* The cache API under arbitrary call sequences *)

\* time.time() between two calls advances by one of these
TickSteps == {1, CACHE_TTL}

TtlValues == {1, CACHE_TTL}

CacheValues == {"v1", "v2"}

\* the paths and parameter maps the cache API is called with
CachePaths == {PATH_BOOK_TITLES \o <<"_", "v", "1">>, PATH_BOOK_COPIES}

CacheParams == {<<>>, <<[k |-> STR_page, v |-> <<"2">>]>>}

\* the key of each of them, computed once
CacheKeyOf == [p \in CachePaths, q \in CacheParams |-> make_cache_key(p, q)]

CacheKeys == {CacheKeyOf[p, q] : p \in CachePaths, q \in CacheParams}

\* the prefixes the write handlers pass, and the empty prefix
Prefixes == {PATH_BOOK_TITLES, PATH_BOOK_COPIES, PATH_V2_BOOK_COPIES, <<>>}

NoCall == [op |-> "none", key |-> <<>>, ret |-> None]

InitKey ==
    /\ kin \in [1..2 -> [path : Paths, params : ParamMaps]]
    /\ kout = <<>>

NoResp == [handler |-> "none", status |-> 0, cached |-> FALSE, stale |-> FALSE,
           ops |-> <<>>]

NoAuth ==
    /\ areq = None
    /\ config = None
    /\ users = {}
    /\ outcome = None

InitDb ==
    /\ titles = <<>>
    /\ copies = <<>>
    /\ borrowings = <<>>
    /\ resp = NoResp
    /\ stale = {}

InitCache ==
    /\ CACHE = <<>>
    /\ now = 0
    /\ ticks = 0
    /\ call = NoCall
    /\ mru = None

\* no request is being handled step by step
NoRace ==
    /\ thr = <<>>
    /\ origin = <<>>

Init == InitCache /\ InitDb /\ NoAuth /\ NoRace /\ kin = <<>> /\ kout = <<>>

CacheTick ==
    /\ ticks < MaxTicks
    /\ \E d \in TickSteps : now' = now + d
    /\ ticks' = ticks + 1
    /\ call' = [op |-> "tick", key |-> <<>>, ret |-> None]
    /\ UNCHANGED <<CACHE, mru, keyVars, handlerVars, authVars, raceVars>>

CacheSetCall ==
    \E path \in CachePaths, params \in CacheParams, value \in CacheValues, ttl \in TtlValues :
        LET key == CacheKeyOf[path, params] IN
        /\ key \in DOMAIN CACHE \/ Cardinality(DOMAIN CACHE) < MaxEntries
        /\ CACHE' = cache_set(CACHE, key, value, ttl, now)
        /\ call' = [op |-> "set", key |-> key, ret |-> None]
        /\ mru' = Some([key |-> key, value |-> value, ttl |-> ttl, at |-> now,
                        prev |-> IF key \in DOMAIN CACHE THEN CACHE[key].time ELSE -1])
        /\ UNCHANGED <<now, ticks, keyVars, handlerVars, authVars, raceVars>>

CacheGetCall ==
    \E key \in CacheKeys :
        /\ CACHE' = cache_get_store(CACHE, key, now)
        /\ call' = [op |-> "get", key |-> key, ret |-> cache_get(CACHE, key, now)]
        /\ UNCHANGED <<now, ticks, mru, keyVars, handlerVars, authVars, raceVars>>

CacheDeletePrefixCall ==
    \E prefix \in Prefixes :
        /\ CACHE' = cache_delete_prefix(CACHE, prefix)
        /\ call' = [op |-> "delete_prefix", key |-> prefix, ret |-> None]
        /\ mru' = IF mru # None /\ mru[1].key \notin DOMAIN CACHE' THEN None ELSE mru
        /\ UNCHANGED <<now, ticks, keyVars, handlerVars, authVars, raceVars>>

NextCache == CacheTick \/ CacheSetCall \/ CacheGetCall \/ CacheDeletePrefixCall

SpecCache == Init /\ [][NextCache]_vars

KeyCall ==
    /\ kout = <<>>
    /\ kout' = <<make_cache_key(kin[1].path, kin[1].params),
                 make_cache_key(kin[2].path, kin[2].params)>>
    /\ UNCHANGED <<kin, cacheVars, handlerVars, authVars, raceVars>>

NextKey == KeyCall

InitSpecKey == InitKey /\ InitCache /\ InitDb /\ NoAuth /\ NoRace

SpecKey == InitSpecKey /\ [][NextKey]_vars

-----------------------------------------------------------------------------
(* The cached list handlers and the write handlers of api.py.  A row keeps  *)
(* the columns the handlers decide on (title; book_title_id, barcode,       *)
(* available; book_copy_id, returned); author, publisher, year, category,   *)
(* condition, the dates and the fine are carried by no decision and are     *)
(* left out.  Each handler runs after token_required has let it through.   *)

TitleNames == {"T1", "T2"}

Barcodes == {"b1", "b2"}

\* a column value that is SQL NULL (a JSON null in the request body)
NULL == "NULL"

\* the query strings of the list requests: none, and ?size=1&page=2
ListArgs == {<<>>, <<[k |-> STR_size, v |-> <<"1">>], [k |-> STR_page, v |-> <<"2">>]>>}

\* str(n) of a one-digit number
IntStr(n) == <<HexDigits[n + 1]>>

\* int(s) of a one-digit string
IntOf(s) == (CHOOSE i \in 1..10 : HexDigits[i] = s[1]) - 1

\* request.args.get(name, default) passed through int()
ArgInt(args, name, default) ==
    IF \E i \in 1..Len(args) : args[i].k = name
    THEN IntOf(args[CHOOSE i \in 1..Len(args) : args[i].k = name].v)
    ELSE default

\* the paths the list handlers make their keys from
KEYPATH_TITLES_V1 == PATH_BOOK_TITLES \o <<"_", "v">> \o IntStr(1)

KEYPATH_TITLES_V2 == PATH_BOOK_TITLES \o <<"_", "v">> \o IntStr(2)

ListPaths == {KEYPATH_TITLES_V1, KEYPATH_TITLES_V2, PATH_BOOK_COPIES, PATH_V2_BOOK_COPIES}

\* make_cache_key(path, request.args) of every list request, computed once
ListKeyOf == [p \in ListPaths, a \in ListArgs |-> make_cache_key(p, a)]

\* the keys of the list requests of one resource family
TitleKeys == {ListKeyOf[p, a] : p \in {KEYPATH_TITLES_V1, KEYPATH_TITLES_V2}, a \in ListArgs}

CopyKeys == {ListKeyOf[p, a] : p \in {PATH_BOOK_COPIES, PATH_V2_BOOK_COPIES}, a \in ListArgs}

\* the prefixes the write handlers of a family invalidate, in call order
TITLE_PREFIXES == <<PATH_BOOK_TITLES>>

COPY_PREFIXES == <<PATH_BOOK_COPIES, PATH_V2_BOOK_COPIES>>

Max(S) == CHOOSE x \in S : \A y \in S : y <= x

Min(a, b) == IF a <= b THEN a ELSE b

\* the primary key SQLite gives the next row of a table
NextId(table) == IF DOMAIN table = {} THEN 1 ELSE Max(DOMAIN table) + 1

\* the ids of a table in ascending order: the order Query.all() lists the rows
RECURSIVE SortedIds(_)
SortedIds(S) ==
    IF S = {} THEN <<>>
    ELSE LET m == CHOOSE x \in S : \A y \in S : x <= y
         IN  <<m>> \o SortedIds(S \ {m})

\* the borrowing of a copy that is not returned yet, or None
ActiveBorrowing(B, copy_id) ==
    IF \E b \in DOMAIN B : B[b].book_copy_id = copy_id /\ ~B[b].returned
    THEN Some(CHOOSE b \in DOMAIN B : B[b].book_copy_id = copy_id /\ ~B[b].returned)
    ELSE None

paginate(rows, args) ==
    LET page == ArgInt(args, STR_page, 1)
        size == ArgInt(args, STR_size, 10)
        total == Len(rows)
    IN  [items |-> SubSeq(rows, (page - 1) * size + 1, Min(total, page * size)),
         page_info |-> [page |-> page, size |-> size, total_items |-> total,
                        total_pages |-> (total + size - 1) \div size]]

serialize_book_title_v1(T, Cp, id) ==
    [id |-> id, title |-> T[id].title,
     copies_count |-> Cardinality({c \in DOMAIN Cp : Cp[c].book_title_id = id})]

serialize_book_title_v2(T, Cp, id) ==
    [id |-> id, title |-> T[id].title,
     totalCopies |-> Cardinality({c \in DOMAIN Cp : Cp[c].book_title_id = id}),
     availableCopies |->
         Cardinality({c \in DOMAIN Cp : Cp[c].book_title_id = id /\ Cp[c].available})]

serialize_book_copy_v1(Cp, id) ==
    [id |-> id, book_title_id |-> Cp[id].book_title_id, barcode |-> Cp[id].barcode,
     available |-> Cp[id].available]

serialize_book_copy_v2(T, Cp, B, id) ==
    [id |-> id, bookTitleId |-> Cp[id].book_title_id, barcode |-> Cp[id].barcode,
     available |-> Cp[id].available,
     bookTitle |-> IF Cp[id].book_title_id \in DOMAIN T
                   THEN Some(T[Cp[id].book_title_id].title) ELSE None,
     isBorrowed |-> ~Cp[id].available,
     currentBorrowingId |-> ActiveBorrowing(B, id)]

\* what list_book_titles computes on a cache miss
TitlesResult(version, args) ==
    LET p == paginate(SortedIds(DOMAIN titles), args) IN
    IF version = 1
    THEN [items |-> [i \in 1..Len(p.items) |-> serialize_book_title_v1(titles, copies, p.items[i])],
          page |-> p.page_info]
    ELSE [data |-> [i \in 1..Len(p.items) |-> serialize_book_title_v2(titles, copies, p.items[i])],
          pagination |-> p.page_info, meta |-> "2.0"]

\* what list_book_copies_v1 and list_book_copies_v2 compute on a cache miss
CopiesResult(version, args) ==
    LET p == paginate(SortedIds(DOMAIN copies), args) IN
    IF version = 1
    THEN [items |-> [i \in 1..Len(p.items) |-> serialize_book_copy_v1(copies, p.items[i])],
          page |-> p.page_info]
    ELSE [data |-> [i \in 1..Len(p.items) |->
                       serialize_book_copy_v2(titles, copies, borrowings, p.items[i])],
          pagination |-> p.page_info, meta |-> "2.0"]

\* a read handler: key = make_cache_key(...); cached = cache_get(key); on a hit
\* answer cached, on a miss compute the result, cache_set(key, result), answer it
CachedRead(name, key, result) ==
    LET cached == cache_get(CACHE, key, now)
        looked == cache_get_store(CACHE, key, now)
    IN  IF cached # None
        THEN /\ CACHE' = looked
             /\ resp' = [handler |-> name, status |-> 200, cached |-> TRUE,
                         stale |-> key \in stale, ops |-> <<>>]
             /\ stale' = stale
        ELSE /\ Cardinality(DOMAIN looked \cup {key}) <= MaxCached
             /\ CACHE' = cache_set(looked, key, result, CACHE_TTL, now)
             /\ resp' = [handler |-> name, status |-> 200,
                         cached |-> FALSE, stale |-> FALSE, ops |-> <<>>]
             /\ stale' = (stale \cap DOMAIN looked) \ {key}

\* the cache after cache_delete_prefix of each prefix in turn
RECURSIVE Invalidate(_, _)
Invalidate(C, prefixes) ==
    IF prefixes = <<>> THEN C
    ELSE Invalidate(cache_delete_prefix(C, Head(prefixes)), Tail(prefixes))

\* a write handler that invalidates first and commits afterwards
CommitThenInvalidate_Swapped(C, committed, prefixes) ==
    [cache |-> Invalidate(C, prefixes),
     ops |-> [i \in 1..Len(prefixes) |-> "cache_delete_prefix"]
             \o <<IF committed THEN "commit" ELSE "commit_failed">>]

\* the tail of every write handler: db.session.commit(), and only when it did not
\* raise, cache_delete_prefix of each prefix of the family
CommitThenInvalidate(C, committed, prefixes) ==
    IF committed
    THEN [cache |-> Invalidate(C, prefixes),
          ops |-> <<"commit">> \o [i \in 1..Len(prefixes) |-> "cache_delete_prefix"]]
    ELSE [cache |-> C, ops |-> <<"commit_failed">>]

\* a handler that ends before any commit: abort(status) or an error response
Refuse(name, status) ==
    /\ resp' = [handler |-> name, status |-> status, cached |-> FALSE,
                stale |-> FALSE, ops |-> <<>>]
    /\ UNCHANGED <<CACHE, stale, dbVars>>

\* cache, response and staleness after the tail of a write handler; a commit that
\* raises leaves the tables as they were (the session is rolled back or dropped)
WriteTail(name, committed, ok_status, fail_status, prefixes, family) ==
    LET w == CommitThenInvalidate(CACHE, committed, prefixes) IN
    /\ CACHE' = w.cache
    /\ resp' = [handler |-> name, status |-> IF committed THEN ok_status ELSE fail_status,
                cached |-> FALSE, stale |-> FALSE, ops |-> w.ops]
    /\ stale' = IF committed THEN (stale \cup family) \cap DOMAIN w.cache ELSE stale

Tick ==
    /\ ticks < MaxTicks
    /\ \E d \in TickSteps : now' = now + d
    /\ ticks' = ticks + 1
    /\ UNCHANGED <<CACHE, call, mru, keyVars, handlerVars, authVars, raceVars>>

list_book_titles ==
    \E version \in {1, 2}, args \in ListArgs :
        /\ CachedRead("list_book_titles",
                      ListKeyOf[PATH_BOOK_TITLES \o <<"_", "v">> \o IntStr(version), args],
                      TitlesResult(version, args))
        /\ UNCHANGED <<now, ticks, call, mru, keyVars, dbVars, authVars, raceVars>>

\* the body is None without "title" or "author", and else the title given
create_book_title ==
    \E data \in {None} \cup {Some(t) : t \in TitleNames \cup {NULL}} :
        /\ IF data = None
           THEN Refuse("create_book_title", 400)
           ELSE LET committed == data[1] # NULL IN
                /\ committed => Cardinality(DOMAIN titles) < MaxTitles
                /\ WriteTail("create_book_title", committed, 201, 500, TITLE_PREFIXES, TitleKeys)
                /\ titles' = IF committed
                             THEN DictPut(titles, NextId(titles), [title |-> data[1]])
                             ELSE titles
                /\ UNCHANGED <<copies, borrowings>>
        /\ UNCHANGED <<now, ticks, call, mru, keyVars, authVars, raceVars>>

\* the body gives no title (None) or the new title
update_book_title ==
    \E id \in 1..MaxTitles, data \in {None} \cup {Some(t) : t \in TitleNames \cup {NULL}} :
        /\ IF id \notin DOMAIN titles
           THEN Refuse("update_book_title", 404)
           ELSE LET committed == data = None \/ data[1] # NULL IN
                /\ WriteTail("update_book_title", committed, 200, 500, TITLE_PREFIXES, TitleKeys)
                /\ titles' = IF committed /\ data # None
                             THEN DictPut(titles, id, [title |-> data[1]])
                             ELSE titles
                /\ UNCHANGED <<copies, borrowings>>
        /\ UNCHANGED <<now, ticks, call, mru, keyVars, authVars, raceVars>>

delete_book_title ==
    \E id \in 1..MaxTitles :
        /\ IF id \notin DOMAIN titles
           THEN Refuse("delete_book_title", 404)
           ELSE IF \E c \in DOMAIN copies : copies[c].book_title_id = id
           THEN Refuse("delete_book_title", 400)
           ELSE /\ WriteTail("delete_book_title", TRUE, 200, 500, TITLE_PREFIXES, TitleKeys)
                /\ titles' = DictDel(titles, id)
                /\ UNCHANGED <<copies, borrowings>>
        /\ UNCHANGED <<now, ticks, call, mru, keyVars, authVars, raceVars>>

list_book_copies_v1 ==
    \E args \in ListArgs :
        /\ CachedRead("list_book_copies_v1", ListKeyOf[PATH_BOOK_COPIES, args],
                      CopiesResult(1, args))
        /\ UNCHANGED <<now, ticks, call, mru, keyVars, dbVars, authVars, raceVars>>

list_book_copies_v2 ==
    \E args \in ListArgs :
        /\ CachedRead("list_book_copies_v2", ListKeyOf[PATH_V2_BOOK_COPIES, args],
                      CopiesResult(2, args))
        /\ UNCHANGED <<now, ticks, call, mru, keyVars, dbVars, authVars, raceVars>>

\* the request bodies of the copy creations: None without the required fields
CopyBodies == {None} \cup {Some([book_title_id |-> t, barcode |-> b]) :
                              t \in 1..MaxTitles, b \in Barcodes}

\* POST /api/book_copies and POST /api/v2/book-copies: the statuses differ, and
\* both catch the IntegrityError of a duplicate barcode and roll back
CreateBookCopy(name, bad_title_status, duplicate_status) ==
    \E data \in CopyBodies :
        /\ IF data = None
           THEN Refuse(name, 400)
           ELSE IF data[1].book_title_id \notin DOMAIN titles
           THEN Refuse(name, bad_title_status)
           ELSE LET committed == \A c \in DOMAIN copies : copies[c].barcode # data[1].barcode
                    w == CommitThenInvalidate(CACHE, committed, COPY_PREFIXES)
                IN
                /\ committed => Cardinality(DOMAIN copies) < MaxCopies
                /\ CACHE' = w.cache
                /\ resp' = [handler |-> name,
                            status |-> IF committed THEN 201 ELSE duplicate_status,
                            cached |-> FALSE, stale |-> FALSE,
                            ops |-> IF committed THEN w.ops ELSE w.ops \o <<"rollback">>]
                /\ stale' = IF committed THEN (stale \cup CopyKeys) \cap DOMAIN w.cache
                            ELSE stale
                /\ copies' = IF committed
                             THEN DictPut(copies, NextId(copies),
                                          [book_title_id |-> data[1].book_title_id,
                                           barcode |-> data[1].barcode, available |-> TRUE])
                             ELSE copies
                /\ UNCHANGED <<titles, borrowings>>
        /\ UNCHANGED <<now, ticks, call, mru, keyVars, authVars, raceVars>>

create_book_copy_v1 == CreateBookCopy("create_book_copy_v1", 400, 400)

create_book_copy_v2 == CreateBookCopy("create_book_copy_v2", 404, 409)

\* PUT /api/book_copies/<id> and PUT/PATCH /api/v2/book-copies/<id>: the body gives
\* no field (None) or the new available flag
UpdateBookCopy(name) ==
    \E id \in 1..MaxCopies, data \in {None} \cup {Some(a) : a \in BOOLEAN} :
        /\ IF id \notin DOMAIN copies
           THEN Refuse(name, 404)
           ELSE /\ WriteTail(name, TRUE, 200, 500, COPY_PREFIXES, CopyKeys)
                /\ copies' = IF data = None THEN copies
                             ELSE DictPut(copies, id, [copies[id] EXCEPT !.available = data[1]])
                /\ UNCHANGED <<titles, borrowings>>
        /\ UNCHANGED <<now, ticks, call, mru, keyVars, authVars, raceVars>>

update_book_copy_v1 == UpdateBookCopy("update_book_copy_v1")

update_book_copy_v2 == UpdateBookCopy("update_book_copy_v2")

DeleteBookCopy(name, borrowed_status, ok_status) ==
    \E id \in 1..MaxCopies :
        /\ IF id \notin DOMAIN copies
           THEN Refuse(name, 404)
           ELSE IF ActiveBorrowing(borrowings, id) # None
           THEN Refuse(name, borrowed_status)
           ELSE /\ WriteTail(name, TRUE, ok_status, 500, COPY_PREFIXES, CopyKeys)
                /\ copies' = DictDel(copies, id)
                /\ UNCHANGED <<titles, borrowings>>
        /\ UNCHANGED <<now, ticks, call, mru, keyVars, authVars, raceVars>>

delete_book_copy_v1 == DeleteBookCopy("delete_book_copy_v1", 400, 200)

delete_book_copy_v2 == DeleteBookCopy("delete_book_copy_v2", 409, 204)

\* the users the gate has let through
UserIds == {1}

\* a borrow that does not look at the available flag
Unavailable_Never(copy) == FALSE

\* if not copy.available
Unavailable(copy) == ~copy.available

\* the except clause of borrow_book and return_book: db.session.rollback(), which
\* undoes what the session has not committed and nothing else, then abort(500);
\* committed says whether db.session.commit() had returned when the exception rose
Failed(name, committed) ==
    resp' = [handler |-> name, status |-> 500, cached |-> FALSE, stale |-> FALSE,
             ops |-> IF committed THEN <<"commit", "rollback">> ELSE <<"rollback">>]

\* POST /api/borrowings for the copy ids in copy_ids, with room for cap rows: the
\* body names no copy (None) or a copy id; due_ok is whether
\* datetime.fromisoformat accepts the due date given; post_ok is whether the
\* statements between the commit and the end of the try block (the metrics, the
\* count query of the active borrowings, the log calls, the webhook payload and
\* the start of its thread) run without raising
BorrowBook(copy_ids, cap) ==
    \E user \in UserIds, data \in {None} \cup {Some(c) : c \in copy_ids},
       due_ok \in BOOLEAN, post_ok \in BOOLEAN :
        /\ IF data = None
           THEN Refuse("borrow_book", 400)
           ELSE IF data[1] \notin DOMAIN copies
           THEN Refuse("borrow_book", 404)
           ELSE IF Unavailable(copies[data[1]])
           THEN Refuse("borrow_book", 400)
           ELSE IF ~due_ok
           THEN /\ Failed("borrow_book", FALSE)
                /\ UNCHANGED <<CACHE, stale, dbVars>>
           ELSE /\ Cardinality(DOMAIN borrowings) < cap
                /\ borrowings' = DictPut(borrowings, NextId(borrowings),
                                         [book_copy_id |-> data[1], user_id |-> user,
                                          returned |-> FALSE])
                /\ copies' = DictPut(copies, data[1], [copies[data[1]] EXCEPT !.available = FALSE])
                /\ IF post_ok
                   THEN resp' = [handler |-> "borrow_book", status |-> 201,
                                 cached |-> FALSE, stale |-> FALSE, ops |-> <<"commit">>]
                   ELSE Failed("borrow_book", TRUE)
                /\ UNCHANGED <<CACHE, stale, titles>>
        /\ UNCHANGED <<now, ticks, call, mru, keyVars, authVars, raceVars>>

borrow_book == BorrowBook(1..MaxCopies, MaxBorrowings)

\* POST /api/borrowings/<id>/return for the ids in ids; post_ok as in BorrowBook.
\* A borrowing whose copy is gone raises at copy.available = True, before the
\* commit
ReturnBook(ids) ==
    \E id \in ids, post_ok \in BOOLEAN :
        /\ IF id \notin DOMAIN borrowings
           THEN Refuse("return_book", 404)
           ELSE IF borrowings[id].returned
           THEN Refuse("return_book", 400)
           ELSE IF borrowings[id].book_copy_id \notin DOMAIN copies
           THEN /\ Failed("return_book", FALSE)
                /\ UNCHANGED <<CACHE, stale, dbVars>>
           ELSE /\ borrowings' = DictPut(borrowings, id, [borrowings[id] EXCEPT !.returned = TRUE])
                /\ copies' = DictPut(copies, borrowings[id].book_copy_id,
                                     [copies[borrowings[id].book_copy_id] EXCEPT !.available = TRUE])
                /\ IF post_ok
                   THEN resp' = [handler |-> "return_book", status |-> 200,
                                 cached |-> FALSE, stale |-> FALSE, ops |-> <<"commit">>]
                   ELSE Failed("return_book", TRUE)
                /\ UNCHANGED <<CACHE, stale, titles>>
        /\ UNCHANGED <<now, ticks, call, mru, keyVars, authVars, raceVars>>

return_book == ReturnBook(1..MaxBorrowings)

Next ==
    \/ Tick
    \/ list_book_titles
    \/ create_book_title
    \/ update_book_title
    \/ delete_book_title
    \/ list_book_copies_v1
    \/ list_book_copies_v2
    \/ create_book_copy_v1
    \/ create_book_copy_v2
    \/ update_book_copy_v1
    \/ update_book_copy_v2
    \/ delete_book_copy_v1
    \/ delete_book_copy_v2
    \/ borrow_book
    \/ return_book

Spec == Init /\ [][Next]_vars

\* borrow and return requests alone, over two copies of one title
MaxLoanCopies == 2

MaxLoans == 3

InitLoans ==
    /\ InitCache
    /\ titles = DictPut(<<>>, 1, [title |-> "T1"])
    /\ copies = [c \in 1..MaxLoanCopies |->
                    [book_title_id |-> 1, barcode |-> IntStr(c), available |-> TRUE]]
    /\ borrowings = <<>>
    /\ resp = NoResp
    /\ stale = {}
    /\ NoAuth
    /\ NoRace
    /\ kin = <<>>
    /\ kout = <<>>

LoanBorrow == BorrowBook(1..MaxLoanCopies, MaxLoans)

LoanReturn == ReturnBook(1..MaxLoans)

NextLoans == LoanBorrow \/ LoanReturn

SpecLoans == InitLoans /\ [][NextLoans]_vars

-----------------------------------------------------------------------------
(* token_required: the gate in front of every protected handler.  A token is *)
(* the record of what jwt.decode can tell about it: its form (a three-part   *)
(* JWT, a string that is none, or the empty string), the key and algorithm   *)
(* it was signed with, and its exp and id claims (None when absent).         *)

SECRET_KEY == "nmhung_secret"

\* the time of the request
AUTH_NOW == 0

Token(form, key, alg, exp, id) == [form |-> form, key |-> key, alg |-> alg, exp |-> exp, id |-> id]

\* the empty string, as a cookie value or after "Bearer "
EMPTY == Token("empty", "", "", None, None)

\* a string that is not a JWT
GARBAGE == Token("garbage", "", "", None, None)

\* a header part that is a scheme word, not a token
Word(text) == Token("word", text, "", None, None)

\* ids of the id claim: one that may name a user and one that never does
ClaimIds == {1, 999}

JwtTokens ==
    {Token("jwt", key, alg, exp, id) :
        key \in {SECRET_KEY, "other_secret"}, alg \in {"HS256", "HS512"},
        exp \in {None, Some(AUTH_NOW - 1), Some(AUTH_NOW), Some(AUTH_NOW + 1)},
        id \in {None} \cup {Some(i) : i \in ClaimIds}}

Tokens == JwtTokens \cup {GARBAGE}

\* a second token for the requests that carry a cookie and a header
HeaderTokens ==
    {Token("jwt", SECRET_KEY, "HS256", None, Some(1)), Token("jwt", SECRET_KEY, "HS256", None, Some(999)),
     GARBAGE}

\* request.headers["Authorization"].split(" "), or None without the header
Headers(toks) ==
    {None}
    \cup {Some(<<Word("Bearer"), t>>) : t \in toks \cup {EMPTY}}
    \cup {Some(<<Word("bearer"), t>>) : t \in HeaderTokens}
    \cup {Some(<<t>>) : t \in HeaderTokens}
    \cup {Some(<<Word("Bearer"), t, Word("x")>>) : t \in HeaderTokens}

\* cookie and header of a request: one of the two carries any token, or both carry one
Credentials ==
    {[cookie |-> c, header |-> h] : c \in {None, Some(EMPTY)}, h \in Headers(Tokens)}
    \cup {[cookie |-> Some(c), header |-> h] : c \in Tokens, h \in Headers(HeaderTokens)}

PATH_SWAGGER == <<"/", "s", "w", "a", "g", "g", "e", "r">>

PATH_APIDOCS == <<"/", "a", "p", "i", "d", "o", "c", "s">>

PATH_FLASGGER_STATIC ==
    <<"/", "f", "l", "a", "s", "g", "g", "e", "r", "_", "s", "t", "a", "t", "i", "c">>

PATH_OPENAPI_YAML == <<"/", "o", "p", "e", "n", "a", "p", "i", ".", "y", "a", "m", "l">>

\* the request paths: a protected route, the public paths, and two near misses
AuthPaths ==
    {PATH_BOOK_TITLES, PATH_SWAGGER, PATH_APIDOCS \o <<"/">>, PATH_FLASGGER_STATIC,
     PATH_OPENAPI_YAML, PATH_OPENAPI_YAML \o <<"/">>, <<"/", "s", "w", "a", "g">>}

Requests == {[path |-> p, cookie |-> c.cookie, header |-> c.header] : p \in AuthPaths, c \in Credentials}

\* app.config: AUTH_MODE, OAUTH2_INTROSPECTION_URL, _CLIENT_ID, _CLIENT_SECRET
Configs ==
    [AUTH_MODE : {"jwt", "oauth2", "saml"},
     OAUTH2_INTROSPECTION_URL : {None, Some("https://as/introspect")},
     OAUTH2_INTROSPECTION_CLIENT_ID : {None, Some("client")},
     OAUTH2_INTROSPECTION_CLIENT_SECRET : {None, Some("secret")}]

\* the rows of table user that may exist
UserTables == {{}, {1}}

\* what the introspection endpoint does with one call: no answer (a
\* requests.RequestException), or a status and a body; a body is a JSON object
\* with its active and sub fields, JSON that is no object, or no JSON at all, for
\* which Response.json() raises requests' JSONDecodeError (a RequestException
\* and a ValueError, requests 2.27 and later) or a plain ValueError (before)
Replies ==
    {[kind |-> "network_error", status |-> 0, body |-> "none", active |-> None, sub |-> None]}
    \cup {[kind |-> "http", status |-> s, body |-> b, active |-> None, sub |-> None] :
            s \in {200, 401}, b \in {"json_list", "not_json_RequestException", "not_json_ValueError"}}
    \cup {[kind |-> "http", status |-> s, body |-> "json_object", active |-> a, sub |-> u] :
            s \in {200, 401}, a \in {None, Some(FALSE), Some(TRUE)},
            u \in {None} \cup {Some(i) : i \in ClaimIds}}

NoReply == [kind |-> "none", status |-> 0, body |-> "none", active |-> None, sub |-> None]

\* jwt.decode(token, key, algorithms=[alg]) at time t: the payload, or the
\* exception PyJWT raises, in the order it checks
jwt_decode(token, key, alg, t) ==
    IF token.form # "jwt" THEN [ok |-> FALSE, error |-> "Not enough segments"]
    ELSE IF token.alg # alg THEN [ok |-> FALSE, error |-> "The specified alg value is not allowed"]
    ELSE IF token.key # key THEN [ok |-> FALSE, error |-> "Signature verification failed"]
    ELSE IF token.exp # None /\ token.exp[1] <= t
    THEN [ok |-> FALSE, error |-> "Signature has expired"]
    ELSE [ok |-> TRUE, error |-> ""]

\* User.query.get(id)
UserGet(U, id) == IF id \in U THEN Some(id) ELSE None

\* the gate's outcome: the handler called with a principal (None for f(None)),
\* or a response with a status and a message, and the introspection calls made
Called(principal, calls, reply) ==
    [kind |-> "handler", principal |-> principal, status |-> 0, message |-> <<>>,
     calls |-> calls, reply |-> reply]

Rejected(status, message, calls, reply) ==
    [kind |-> "response", principal |-> None, status |-> status, message |-> message,
     calls |-> calls, reply |-> reply]

\* the documentation paths that need no token
IsPublicPath(path) ==
    \/ startswith(path, PATH_SWAGGER)
    \/ startswith(path, PATH_APIDOCS)
    \/ startswith(path, PATH_FLASGGER_STATIC)
    \/ path = PATH_OPENAPI_YAML

\* a token is falsy when it is None or the empty string
Falsy(tok) == tok = None \/ tok[1] = EMPTY

\* an extraction that takes the second of two header parts whatever the first
ExtractToken_AnyScheme(request) ==
    IF ~Falsy(request.cookie) THEN request.cookie
    ELSE IF request.header # None /\ Len(request.header[1]) = 2
    THEN Some(request.header[1][2])
    ELSE None

\* an extraction that looks at the Authorization header first
ExtractToken_HeaderFirst(request) ==
    IF request.header # None
       /\ Len(request.header[1]) = 2
       /\ request.header[1][1] = Word("Bearer")
    THEN Some(request.header[1][2])
    ELSE IF ~Falsy(request.cookie) THEN request.cookie
    ELSE None

\* the token the gate takes from the request: the cookie, else "Bearer <token>"
ExtractToken(request) ==
    IF ~Falsy(request.cookie) THEN request.cookie
    ELSE IF request.header # None
            /\ Len(request.header[1]) = 2
            /\ request.header[1][1] = Word("Bearer")
    THEN Some(request.header[1][2])
    ELSE None

\* a decode that does not check the signature
JwtBranch_NoSignatureCheck(token, U) ==
    IF token.form # "jwt" THEN Rejected(401, <<"Invalid token: ", "Not enough segments">>, <<>>, NoReply)
    ELSE IF token.id = None THEN Rejected(401, <<"Invalid token: ", "'id'">>, <<>>, NoReply)
    ELSE IF UserGet(U, token.id[1]) = None
    THEN Rejected(401, <<"Invalid token: ", "401 Unauthorized: Invalid user">>, <<>>, NoReply)
    ELSE Called(UserGet(U, token.id[1]), <<>>, NoReply)

\* a branch that refuses a token without an exp claim
JwtBranch_ExpRequired(token, U) ==
    LET d == jwt_decode(token, SECRET_KEY, "HS256", AUTH_NOW) IN
    IF ~d.ok THEN Rejected(401, <<"Invalid token: ", d.error>>, <<>>, NoReply)
    ELSE IF token.exp = None THEN Rejected(401, <<"Invalid token: ", "'exp'">>, <<>>, NoReply)
    ELSE IF token.id = None THEN Rejected(401, <<"Invalid token: ", "'id'">>, <<>>, NoReply)
    ELSE IF UserGet(U, token.id[1]) = None
    THEN Rejected(401, <<"Invalid token: ", "401 Unauthorized: Invalid user">>, <<>>, NoReply)
    ELSE Called(UserGet(U, token.id[1]), <<>>, NoReply)

\* a branch without 'if not current_user'
JwtBranch_NoUserCheck(token, U) ==
    LET d == jwt_decode(token, SECRET_KEY, "HS256", AUTH_NOW) IN
    IF ~d.ok THEN Rejected(401, <<"Invalid token: ", d.error>>, <<>>, NoReply)
    ELSE IF token.id = None THEN Rejected(401, <<"Invalid token: ", "'id'">>, <<>>, NoReply)
    ELSE Called(UserGet(U, token.id[1]), <<>>, NoReply)

\* AUTH_MODE 'jwt': every exception of the try block, the KeyError of a missing
\* id claim and the HTTPException of abort(401, "Invalid user") included, is
\* caught by "except Exception as e" and answered abort(401, f"Invalid token: {e}")
JwtBranch(token, U) ==
    LET d == jwt_decode(token, SECRET_KEY, "HS256", AUTH_NOW) IN
    IF ~d.ok THEN Rejected(401, <<"Invalid token: ", d.error>>, <<>>, NoReply)
    ELSE IF token.id = None THEN Rejected(401, <<"Invalid token: ", "'id'">>, <<>>, NoReply)
    ELSE IF UserGet(U, token.id[1]) = None
    THEN Rejected(401, <<"Invalid token: ", "401 Unauthorized: Invalid user">>, <<>>, NoReply)
    ELSE Called(UserGet(U, token.id[1]), <<>>, NoReply)

\* a branch that takes a missing active field for an active token
OAuth2Branch_AbsentIsActive(token, cfg, U, reply) ==
    IF cfg.OAUTH2_INTROSPECTION_URL = None
    THEN Rejected(500, <<"OAuth2 introspection URL not configured">>, <<>>, NoReply)
    ELSE
    LET basic == cfg.OAUTH2_INTROSPECTION_CLIENT_ID # None
                 /\ cfg.OAUTH2_INTROSPECTION_CLIENT_SECRET # None
        calls == <<[token |-> token, auth |-> basic]>>
    IN  IF reply.kind = "network_error"
        THEN Rejected(502, <<"Introspection request failed: ", "RequestException">>, calls, reply)
        ELSE IF reply.status # 200
        THEN Rejected(401, <<"Token introspection failed">>, calls, reply)
        ELSE IF reply.body = "not_json_RequestException"
        THEN Rejected(502, <<"Introspection request failed: ", "JSONDecodeError">>, calls, reply)
        ELSE IF reply.body = "not_json_ValueError"
        THEN Rejected(502, <<"Invalid JSON from introspection endpoint">>, calls, reply)
        ELSE IF reply.body = "json_list"
        THEN Rejected(500, <<"Internal Server Error">>, calls, reply)
        ELSE IF reply.active = Some(FALSE)
        THEN Rejected(401, <<"Token inactive">>, calls, reply)
        ELSE IF reply.sub = None
        THEN Rejected(401, <<"User id not present in introspection response">>, calls, reply)
        ELSE IF UserGet(U, reply.sub[1]) = None
        THEN Rejected(401, <<"User not found">>, calls, reply)
        ELSE Called(UserGet(U, reply.sub[1]), calls, reply)

\* a branch that does not catch requests.RequestException
OAuth2Branch_NetworkErrorUncaught(token, cfg, U, reply) ==
    IF cfg.OAUTH2_INTROSPECTION_URL = None
    THEN Rejected(500, <<"OAuth2 introspection URL not configured">>, <<>>, NoReply)
    ELSE
    LET basic == cfg.OAUTH2_INTROSPECTION_CLIENT_ID # None
                 /\ cfg.OAUTH2_INTROSPECTION_CLIENT_SECRET # None
        calls == <<[token |-> token, auth |-> basic]>>
    IN  IF reply.kind = "network_error"
        THEN Rejected(500, <<"Internal Server Error">>, calls, reply)
        ELSE IF reply.status # 200
        THEN Rejected(401, <<"Token introspection failed">>, calls, reply)
        ELSE IF reply.body = "not_json_RequestException"
        THEN Rejected(502, <<"Introspection request failed: ", "JSONDecodeError">>, calls, reply)
        ELSE IF reply.body = "not_json_ValueError"
        THEN Rejected(502, <<"Invalid JSON from introspection endpoint">>, calls, reply)
        ELSE IF reply.body = "json_list"
        THEN Rejected(500, <<"Internal Server Error">>, calls, reply)
        ELSE IF reply.active # Some(TRUE)
        THEN Rejected(401, <<"Token inactive">>, calls, reply)
        ELSE IF reply.sub = None
        THEN Rejected(401, <<"User id not present in introspection response">>, calls, reply)
        ELSE IF UserGet(U, reply.sub[1]) = None
        THEN Rejected(401, <<"User not found">>, calls, reply)
        ELSE Called(UserGet(U, reply.sub[1]), calls, reply)

\* a branch that sends Basic auth as soon as the client id is configured
OAuth2Branch_AuthWithIdOnly(token, cfg, U, reply) ==
    IF cfg.OAUTH2_INTROSPECTION_URL = None
    THEN Rejected(500, <<"OAuth2 introspection URL not configured">>, <<>>, NoReply)
    ELSE
    LET basic == cfg.OAUTH2_INTROSPECTION_CLIENT_ID # None
        calls == <<[token |-> token, auth |-> basic]>>
    IN  IF reply.kind = "network_error"
        THEN Rejected(502, <<"Introspection request failed: ", "RequestException">>, calls, reply)
        ELSE IF reply.status # 200
        THEN Rejected(401, <<"Token introspection failed">>, calls, reply)
        ELSE IF reply.body = "not_json_RequestException"
        THEN Rejected(502, <<"Introspection request failed: ", "JSONDecodeError">>, calls, reply)
        ELSE IF reply.body = "not_json_ValueError"
        THEN Rejected(502, <<"Invalid JSON from introspection endpoint">>, calls, reply)
        ELSE IF reply.body = "json_list"
        THEN Rejected(500, <<"Internal Server Error">>, calls, reply)
        ELSE IF reply.active # Some(TRUE)
        THEN Rejected(401, <<"Token inactive">>, calls, reply)
        ELSE IF reply.sub = None
        THEN Rejected(401, <<"User id not present in introspection response">>, calls, reply)
        ELSE IF UserGet(U, reply.sub[1]) = None
        THEN Rejected(401, <<"User not found">>, calls, reply)
        ELSE Called(UserGet(U, reply.sub[1]), calls, reply)

\* a branch that calls the endpoint before it checks that a URL is configured
OAuth2Branch_CallBeforeUrlCheck(token, cfg, U, reply) ==
    IF cfg.OAUTH2_INTROSPECTION_URL = None
    THEN Rejected(500, <<"OAuth2 introspection URL not configured">>,
                  <<[token |-> token, auth |-> FALSE]>>, NoReply)
    ELSE
    LET basic == cfg.OAUTH2_INTROSPECTION_CLIENT_ID # None
                 /\ cfg.OAUTH2_INTROSPECTION_CLIENT_SECRET # None
        calls == <<[token |-> token, auth |-> basic]>>
    IN  IF reply.kind = "network_error"
        THEN Rejected(502, <<"Introspection request failed: ", "RequestException">>, calls, reply)
        ELSE IF reply.status # 200
        THEN Rejected(401, <<"Token introspection failed">>, calls, reply)
        ELSE IF reply.body = "not_json_RequestException"
        THEN Rejected(502, <<"Introspection request failed: ", "JSONDecodeError">>, calls, reply)
        ELSE IF reply.body = "not_json_ValueError"
        THEN Rejected(502, <<"Invalid JSON from introspection endpoint">>, calls, reply)
        ELSE IF reply.body = "json_list"
        THEN Rejected(500, <<"Internal Server Error">>, calls, reply)
        ELSE IF reply.active # Some(TRUE)
        THEN Rejected(401, <<"Token inactive">>, calls, reply)
        ELSE IF reply.sub = None
        THEN Rejected(401, <<"User id not present in introspection response">>, calls, reply)
        ELSE IF UserGet(U, reply.sub[1]) = None
        THEN Rejected(401, <<"User not found">>, calls, reply)
        ELSE Called(UserGet(U, reply.sub[1]), calls, reply)

\* AUTH_MODE 'oauth2': one requests.post to the introspection endpoint
OAuth2Branch(token, cfg, U, reply) ==
    IF cfg.OAUTH2_INTROSPECTION_URL = None
    THEN Rejected(500, <<"OAuth2 introspection URL not configured">>, <<>>, NoReply)
    ELSE
    LET basic == cfg.OAUTH2_INTROSPECTION_CLIENT_ID # None
                 /\ cfg.OAUTH2_INTROSPECTION_CLIENT_SECRET # None
        calls == <<[token |-> token, auth |-> basic]>>
    IN  IF reply.kind = "network_error"
        THEN Rejected(502, <<"Introspection request failed: ", "RequestException">>, calls, reply)
        ELSE IF reply.status # 200
        THEN Rejected(401, <<"Token introspection failed">>, calls, reply)
        ELSE IF reply.body = "not_json_RequestException"
        THEN Rejected(502, <<"Introspection request failed: ", "JSONDecodeError">>, calls, reply)
        ELSE IF reply.body = "not_json_ValueError"
        THEN Rejected(502, <<"Invalid JSON from introspection endpoint">>, calls, reply)
        ELSE IF reply.body = "json_list"
        THEN Rejected(500, <<"Internal Server Error">>, calls, reply)
        ELSE IF reply.active # Some(TRUE)
        THEN Rejected(401, <<"Token inactive">>, calls, reply)
        ELSE IF reply.sub = None
        THEN Rejected(401, <<"User id not present in introspection response">>, calls, reply)
        ELSE IF UserGet(U, reply.sub[1]) = None
        THEN Rejected(401, <<"User not found">>, calls, reply)
        ELSE Called(UserGet(U, reply.sub[1]), calls, reply)

\* a gate that treats an unknown AUTH_MODE as 'jwt'
token_required_UnknownModeAsJwt(request, cfg, U, reply) ==
    IF IsPublicPath(request.path) THEN Called(None, <<>>, NoReply)
    ELSE LET token == ExtractToken(request) IN
    IF Falsy(token) THEN Rejected(401, <<"Missing token">>, <<>>, NoReply)
    ELSE IF cfg.AUTH_MODE = "jwt" THEN JwtBranch(token[1], U)
    ELSE IF cfg.AUTH_MODE = "oauth2" THEN OAuth2Branch(token[1], cfg, U, reply)
    ELSE JwtBranch(token[1], U)

\* a gate that asks for a token before it looks at the path
token_required_TokenBeforePublic(request, cfg, U, reply) ==
    LET token == ExtractToken(request) IN
    IF Falsy(token) THEN Rejected(401, <<"Missing token">>, <<>>, NoReply)
    ELSE IF IsPublicPath(request.path) THEN Called(None, <<>>, NoReply)
    ELSE IF cfg.AUTH_MODE = "jwt" THEN JwtBranch(token[1], U)
    ELSE IF cfg.AUTH_MODE = "oauth2" THEN OAuth2Branch(token[1], cfg, U, reply)
    ELSE Rejected(500, <<"Unknown AUTH_MODE: ", cfg.AUTH_MODE>>, <<>>, NoReply)

\* decorated(*args, **kwargs)
token_required(request, cfg, U, reply) ==
    IF IsPublicPath(request.path) THEN Called(None, <<>>, NoReply)
    ELSE LET token == ExtractToken(request) IN
    IF Falsy(token) THEN Rejected(401, <<"Missing token">>, <<>>, NoReply)
    ELSE IF cfg.AUTH_MODE = "jwt" THEN JwtBranch(token[1], U)
    ELSE IF cfg.AUTH_MODE = "oauth2" THEN OAuth2Branch(token[1], cfg, U, reply)
    ELSE Rejected(500, <<"Unknown AUTH_MODE: ", cfg.AUTH_MODE>>, <<>>, NoReply)

InitAuth ==
    /\ areq \in Requests
    /\ config \in Configs
    /\ users \in UserTables
    /\ outcome = None

\* the gate gets as far as requests.post(introspect_url, ...)
ReachesIntrospection(request, cfg) ==
    /\ ~IsPublicPath(request.path)
    /\ ~Falsy(ExtractToken(request))
    /\ cfg.AUTH_MODE = "oauth2"
    /\ cfg.OAUTH2_INTROSPECTION_URL # None

\* the request is blocked in requests.post(..., timeout=5)
Pending ==
    [kind |-> "pending", principal |-> None, status |-> 0, message |-> <<>>,
     calls |-> <<>>, reply |-> NoReply]

\* one request enters the gate: it is answered at once, or blocks in the
\* introspection call
Authenticate ==
    /\ outcome = None
    /\ outcome' = IF ReachesIntrospection(areq, config) THEN Some(Pending)
                  ELSE Some(token_required(areq, config, users, NoReply))
    /\ UNCHANGED <<areq, config, users, cacheVars, keyVars, handlerVars, raceVars>>

\* an introspection step that creates the user the endpoint names
IntrospectionReturns_ProvisionsUser ==
    /\ outcome = Some(Pending)
    /\ \E reply \in Replies :
        /\ users' = IF reply.sub # None THEN users \cup {reply.sub[1]} ELSE users
        /\ outcome' = Some(token_required(areq, config, users', reply))
    /\ UNCHANGED <<areq, config, cacheVars, keyVars, handlerVars, raceVars>>

\* requests.post returns a response or raises (after 5 s without an answer at
\* the latest), and the gate runs to its end
IntrospectionReturns ==
    /\ outcome = Some(Pending)
    /\ \E reply \in Replies : outcome' = Some(token_required(areq, config, users, reply))
    /\ UNCHANGED <<areq, config, users, cacheVars, keyVars, handlerVars, raceVars>>

NextAuth == Authenticate \/ IntrospectionReturns

\* what the application holds when the request arrives: a cached list, a title,
\* a copy of it and a borrowing of the copy
InitAuthStore ==
    /\ CACHE = cache_set(<<>>, CacheKeyOf[PATH_BOOK_COPIES, <<>>], "v1", CACHE_TTL, AUTH_NOW)
    /\ now = AUTH_NOW
    /\ ticks = 0
    /\ call = NoCall
    /\ mru = None
    /\ titles = DictPut(<<>>, 1, [title |-> "T1"])
    /\ copies = DictPut(<<>>, 1, [book_title_id |-> 1, barcode |-> "b1", available |-> FALSE])
    /\ borrowings = DictPut(<<>>, 1, [book_copy_id |-> 1, user_id |-> 1, returned |-> FALSE])
    /\ resp = NoResp
    /\ stale = {}

InitSpecAuth == InitAuth /\ InitAuthStore /\ NoRace /\ kin = <<>> /\ kout = <<>>

SpecAuth == InitSpecAuth /\ [][NextAuth]_vars

\* requests.post with timeout=5 does not block for ever
SpecAuthLive == InitSpecAuth /\ [][NextAuth]_vars /\ WF_vars(IntrospectionReturns)

-----------------------------------------------------------------------------
(* Requests handled concurrently: the server gives every request a thread, and *)
(* CACHE is a module-level dict that all of them share without a lock.  One    *)
(* step is one access to CACHE, to the clock or to the database; a dict        *)
(* lookup, store or deletion is a single step, as the interpreter executes it. *)

Threads == {1, 2}

MaxRaceTicks == 2

\* the locals of a request at the start of a cache call or of a handler
Thread(handler, op, pc, key, value, ttl, todo, args) ==
    [handler |-> handler, op |-> op, pc |-> pc, key |-> key, value |-> value, ttl |-> ttl,
     todo |-> todo, args |-> args, entry |-> None, born |-> 0, keys |-> {}, computed |-> 0,
     ret |-> None, raised |-> FALSE]

\* a thread between two requests
Idle == Thread("none", "none", "done", <<>>, <<>>, 0, <<>>, <<>>)

\* what is left unchanged by every step of a concurrent request
raceFrame == <<call, mru, keyVars, authVars, resp, stale, titles, borrowings>>

\* the request is over: what stays of it is which call it was and what it
\* returned or whether it raised
Done(r, ret, raised) ==
    [Idle EXCEPT !.handler = r.handler, !.op = r.op, !.key = r.key, !.ret = ret,
                 !.raised = raised]

\* cache_get has returned ret: a bare call ends, a read handler answers a hit
\* from the cache and goes on to its query on a miss
AfterGet(r, ret) ==
    IF r.handler = "none" \/ ret # None
    THEN Done(r, ret, FALSE)
    ELSE [r EXCEPT !.pc = "query", !.entry = None, !.born = 0]

\* cache_delete_prefix has returned
AfterDelete(r) == Done(r, None, FALSE)

\* del CACHE[key] for a key that is not in the dict: KeyError, which no cache
\* function and no handler catches
Raise(r) == Done(r, None, TRUE)

\* time.time() advances between two steps
RaceTick ==
    /\ ticks < MaxRaceTicks
    /\ \E d \in TickSteps : now' = now + d
    /\ ticks' = ticks + 1
    /\ UNCHANGED <<CACHE, origin, thr, copies, raceFrame>>

\* cache_get, line 38: entry = CACHE.get(key); if not entry: return None
GetRead ==
    \E t \in Threads :
        LET r == thr[t] IN
        /\ r.pc = "get_read"
        /\ thr' = [thr EXCEPT ![t] =
                     IF r.key \in DOMAIN CACHE
                     THEN [r EXCEPT !.entry = Some(CACHE[r.key]), !.born = origin[r.key],
                                    !.pc = "get_check"]
                     ELSE AfterGet(r, None)]
        /\ UNCHANGED <<CACHE, origin, now, ticks, copies, raceFrame>>

\* cache_get, line 43: if time.time() - entry["time"] > entry["ttl"], on the
\* entry read at line 38; else return entry["data"]
GetCheck ==
    \E t \in Threads :
        LET r == thr[t] IN
        /\ r.pc = "get_check"
        /\ thr' = [thr EXCEPT ![t] =
                     IF Expired(r.entry[1], now)
                     THEN [r EXCEPT !.pc = "get_del"]
                     ELSE AfterGet(r, Some(r.entry[1].data))]
        /\ UNCHANGED <<CACHE, origin, now, ticks, copies, raceFrame>>

\* cache_get, line 44: del CACHE[key], on whatever the dict holds under key by
\* now; return None
GetDel ==
    \E t \in Threads :
        LET r == thr[t] IN
        /\ r.pc = "get_del"
        /\ IF r.key \in DOMAIN CACHE
           THEN /\ CACHE' = DictDel(CACHE, r.key)
                /\ origin' = DictDel(origin, r.key)
                /\ thr' = [thr EXCEPT ![t] = AfterGet(r, None)]
           ELSE /\ thr' = [thr EXCEPT ![t] = Raise(r)]
                /\ UNCHANGED <<CACHE, origin>>
        /\ UNCHANGED <<now, ticks, copies, raceFrame>>

\* cache_set, line 53: CACHE[key] = {"data": value, "time": time.time(), "ttl": ttl}
SetStore ==
    \E t \in Threads :
        LET r == thr[t] IN
        /\ r.pc = "set_store"
        /\ CACHE' = cache_set(CACHE, r.key, r.value, r.ttl, now)
        /\ origin' = DictPut(origin, r.key, IF r.handler = "none" THEN now ELSE r.computed)
        /\ thr' = [thr EXCEPT ![t] = Done(r, None, FALSE)]
        /\ UNCHANGED <<now, ticks, copies, raceFrame>>

\* cache_delete_prefix, line 62: list(CACHE.keys()), of which the loop goes on
\* to delete those that start with the prefix
DelSnapshot ==
    \E t \in Threads :
        LET r == thr[t]
            matching == {k \in DOMAIN CACHE : startswith(k, Head(r.todo))}
        IN
        /\ r.pc = "del_snapshot"
        /\ thr' = [thr EXCEPT ![t] =
                     IF matching = {} THEN AfterDelete(r)
                     ELSE [r EXCEPT !.keys = matching, !.pc = "del_loop"]]
        /\ UNCHANGED <<CACHE, origin, now, ticks, copies, raceFrame>>

\* cache_delete_prefix, line 64: del CACHE[key] for the next key of the list
\* (the dict's insertion order, which the model does not keep: any order)
DelLoop ==
    \E t \in Threads :
        LET r == thr[t] IN
        /\ r.pc = "del_loop"
        /\ \E k \in r.keys :
            IF k \in DOMAIN CACHE
            THEN /\ CACHE' = DictDel(CACHE, k)
                 /\ origin' = DictDel(origin, k)
                 /\ thr' = [thr EXCEPT ![t] =
                              IF r.keys = {k} THEN AfterDelete(r)
                              ELSE [r EXCEPT !.keys = @ \ {k}]]
            ELSE /\ thr' = [thr EXCEPT ![t] = Raise(r)]
                 /\ UNCHANGED <<CACHE, origin>>
        /\ UNCHANGED <<now, ticks, copies, raceFrame>>

\* the keys the concurrent calls use
RaceKeys == {CacheKeyOf[PATH_BOOK_COPIES, q] : q \in CacheParams}

\* the value thread t stores under key: it names the call it comes from
RaceValue(t, key) == <<t, key>>

StartGet ==
    \E t \in Threads, key \in RaceKeys :
        /\ thr[t].pc = "done"
        /\ thr' = [thr EXCEPT ![t] = Thread("none", "get", "get_read", key, <<>>, 0, <<>>, <<>>)]
        /\ UNCHANGED <<CACHE, origin, now, ticks, copies, raceFrame>>

StartSet ==
    \E t \in Threads, key \in RaceKeys, ttl \in TtlValues :
        /\ thr[t].pc = "done"
        /\ thr' = [thr EXCEPT ![t] =
                     Thread("none", "set", "set_store", key, RaceValue(t, key), ttl, <<>>, <<>>)]
        /\ UNCHANGED <<CACHE, origin, now, ticks, copies, raceFrame>>

StartDeletePrefix ==
    \E t \in Threads, prefix \in {<<>>, PATH_BOOK_COPIES} :
        /\ thr[t].pc = "done"
        /\ thr' = [thr EXCEPT ![t] =
                     Thread("none", "delete_prefix", "del_snapshot", <<>>, <<>>, 0, <<prefix>>, <<>>)]
        /\ UNCHANGED <<CACHE, origin, now, ticks, copies, raceFrame>>

InitRace ==
    /\ InitCache
    /\ InitDb
    /\ NoAuth
    /\ kin = <<>>
    /\ kout = <<>>
    /\ thr = [t \in Threads |-> Idle]
    /\ origin = <<>>

NextRace ==
    \/ RaceTick
    \/ StartGet
    \/ StartSet
    \/ StartDeletePrefix
    \/ GetRead
    \/ GetCheck
    \/ GetDel
    \/ SetStore
    \/ DelSnapshot
    \/ DelLoop

SpecRace == InitRace /\ [][NextRace]_vars

\* GET /api/book_copies and PUT /api/book_copies/1 handled concurrently
InitReadRace ==
    /\ InitCache
    /\ titles = DictPut(<<>>, 1, [title |-> "T1"])
    /\ copies = DictPut(<<>>, 1, [book_title_id |-> 1, barcode |-> "b1", available |-> TRUE])
    /\ borrowings = <<>>
    /\ resp = NoResp
    /\ stale = {}
    /\ NoAuth
    /\ kin = <<>>
    /\ kout = <<>>
    /\ thr = [t \in Threads |-> Idle]
    /\ origin = <<>>

\* list_book_copies_v1, lines 632-633: key = make_cache_key(request.path,
\* request.args); cached = cache_get(key)
StartRead ==
    \E t \in Threads, args \in ListArgs :
        /\ thr[t].pc = "done"
        /\ thr' = [thr EXCEPT ![t] =
                     Thread("list_book_copies_v1", "get", "get_read",
                            ListKeyOf[PATH_BOOK_COPIES, args], <<>>, CACHE_TTL, <<>>, args)]
        /\ UNCHANGED <<CACHE, origin, now, ticks, copies, raceFrame>>

\* list_book_copies_v1, lines 638-651: the query, its pagination and
\* serialization, up to the call cache_set(key, result)
Query ==
    \E t \in Threads :
        LET r == thr[t] IN
        /\ r.pc = "query"
        /\ thr' = [thr EXCEPT ![t] =
                     [r EXCEPT !.op = "set", !.value = CopiesResult(1, r.args),
                               !.computed = now, !.pc = "set_store"]]
        /\ UNCHANGED <<CACHE, origin, now, ticks, copies, raceFrame>>

\* update_book_copy_v1, line 701: c = BookCopy.query.get_or_404(id)
StartWrite ==
    \E t \in Threads :
        /\ thr[t].pc = "done"
        /\ 1 \in DOMAIN copies
        /\ thr' = [thr EXCEPT ![t] =
                     Thread("update_book_copy_v1", "commit", "commit", <<>>, <<>>, 0,
                            COPY_PREFIXES, <<>>)]
        /\ UNCHANGED <<CACHE, origin, now, ticks, copies, raceFrame>>

\* update_book_copy_v1, lines 702-706: setattr(c, "available", ...);
\* db.session.commit()
Commit ==
    \E t \in Threads, available \in BOOLEAN :
        LET r == thr[t] IN
        /\ r.pc = "commit"
        /\ copies' = DictPut(copies, 1, [copies[1] EXCEPT !.available = available])
        /\ thr' = [thr EXCEPT ![t] = [r EXCEPT !.op = "delete_prefix", !.pc = "invalidate"]]
        /\ UNCHANGED <<CACHE, origin, now, ticks, raceFrame>>

\* update_book_copy_v1, lines 707-708: cache_delete_prefix of the next prefix
InvalidateStep ==
    \E t \in Threads :
        LET r == thr[t] IN
        /\ r.pc = "invalidate"
        /\ CACHE' = cache_delete_prefix(CACHE, Head(r.todo))
        /\ origin' = [k \in DOMAIN CACHE' |-> origin[k]]
        /\ thr' = [thr EXCEPT ![t] =
                     IF Len(r.todo) = 1 THEN Done(r, None, FALSE)
                     ELSE [r EXCEPT !.todo = Tail(@)]]
        /\ UNCHANGED <<now, ticks, copies, raceFrame>>

NextReadRace ==
    \/ RaceTick
    \/ StartRead
    \/ GetRead
    \/ GetCheck
    \/ GetDel
    \/ Query
    \/ SetStore
    \/ StartWrite
    \/ Commit
    \/ InvalidateStep

SpecReadRace == InitReadRace /\ [][NextReadRace]_vars

\* POST /api/borrowings and POST /api/borrowings/<id>/return handled
\* concurrently, each request with its own session: a request reads the row it
\* is about, decides on what it read, and commits; nothing locks the row
\* between the read and the commit
LoanThread(op, pc, target, status, row) ==
    [op |-> op, pc |-> pc, target |-> target, status |-> status, row |-> row]

loanFrame == <<cacheVars, keyVars, authVars, titles, resp, stale, origin>>

InitBorrowRace ==
    /\ InitCache
    /\ titles = DictPut(<<>>, 1, [title |-> "T1"])
    /\ copies = [c \in 1..MaxLoanCopies |->
                    [book_title_id |-> 1, barcode |-> IntStr(c), available |-> TRUE]]
    /\ borrowings = <<>>
    /\ resp = NoResp
    /\ stale = {}
    /\ NoAuth
    /\ kin = <<>>
    /\ kout = <<>>
    /\ thr = [t \in Threads |-> LoanThread("none", "done", 0, 0, 0)]
    /\ origin = <<>>

\* borrow_book, lines 1214-1216: copy = BookCopy.query.get_or_404(book_copy_id);
\* if not copy.available: 400
BorrowQuery ==
    \E t \in Threads, book_copy_id \in 1..MaxLoanCopies :
        /\ thr[t].pc = "done"
        /\ thr' = [thr EXCEPT ![t] =
                     IF book_copy_id \notin DOMAIN copies
                     THEN LoanThread("borrow", "done", book_copy_id, 404, 0)
                     ELSE IF Unavailable(copies[book_copy_id])
                     THEN LoanThread("borrow", "done", book_copy_id, 400, 0)
                     ELSE LoanThread("borrow", "borrow_commit", book_copy_id, 0, 0)]
        /\ UNCHANGED <<dbVars, loanFrame>>

\* borrow_book, lines 1234-1238: Borrowing(...); copy.available = False;
\* db.session.add(borrow); db.session.commit(), which writes the flag and the
\* new row whatever the flag is by now, or raises (the database is locked by
\* another writer for longer than the driver waits) and is rolled back: 500
BorrowCommit ==
    \E t \in Threads, committed \in BOOLEAN :
        LET r == thr[t]
            id == NextId(borrowings)
        IN
        /\ r.pc = "borrow_commit"
        /\ IF committed
           THEN /\ Cardinality(DOMAIN borrowings) < MaxLoans
                /\ borrowings' = DictPut(borrowings, id,
                                         [book_copy_id |-> r.target, user_id |-> 1,
                                          returned |-> FALSE])
                /\ copies' = DictPut(copies, r.target, [copies[r.target] EXCEPT !.available = FALSE])
                /\ thr' = [thr EXCEPT ![t] = LoanThread("borrow", "done", r.target, 201, id)]
           ELSE /\ thr' = [thr EXCEPT ![t] = LoanThread("borrow", "done", r.target, 500, 0)]
                /\ UNCHANGED <<copies, borrowings>>
        /\ UNCHANGED loanFrame

\* return_book, lines 1298-1300: b = Borrowing.query.get_or_404(id);
\* if b.return_date: 400
ReturnQuery ==
    \E t \in Threads, id \in 1..MaxLoans :
        /\ thr[t].pc = "done"
        /\ thr' = [thr EXCEPT ![t] =
                     IF id \notin DOMAIN borrowings
                     THEN LoanThread("return", "done", id, 404, 0)
                     ELSE IF borrowings[id].returned
                     THEN LoanThread("return", "done", id, 400, 0)
                     ELSE LoanThread("return", "return_commit", id, 0, 0)]
        /\ UNCHANGED <<dbVars, loanFrame>>

\* return_book, lines 1318-1326: b.return_date = ...; copy.available = True;
\* db.session.commit(), or its failure as in BorrowCommit
ReturnCommit ==
    \E t \in Threads, committed \in BOOLEAN :
        LET r == thr[t]
            c == borrowings[r.target].book_copy_id
        IN
        /\ r.pc = "return_commit"
        /\ IF committed
           THEN /\ borrowings' = DictPut(borrowings, r.target,
                                         [borrowings[r.target] EXCEPT !.returned = TRUE])
                /\ copies' = DictPut(copies, c, [copies[c] EXCEPT !.available = TRUE])
                /\ thr' = [thr EXCEPT ![t] = LoanThread("return", "done", r.target, 200, r.target)]
           ELSE /\ thr' = [thr EXCEPT ![t] = LoanThread("return", "done", r.target, 500, 0)]
                /\ UNCHANGED <<copies, borrowings>>
        /\ UNCHANGED loanFrame

NextBorrowRace == BorrowQuery \/ BorrowCommit \/ ReturnQuery \/ ReturnCommit

SpecBorrowRace == InitBorrowRace /\ [][NextBorrowRace]_vars

-----------------------------------------------------------------------------
(* Properties of the cache API (SpecCache) and of make_cache_key (SpecKey) *)

\* C1: cache_delete_prefix(prefix) removes every entry stored under a key made
\* from a path that starts with prefix, and leaves every entry made from another
\* path as it was.
C1_DeletePrefixByPath ==
    [][call'.op = "delete_prefix" =>
         \A p \in CachePaths, q \in CacheParams :
             LET k == CacheKeyOf[p, q] IN
             k \in DOMAIN CACHE =>
                 IF startswith(p, call'.key)
                 THEN k \notin DOMAIN CACHE'
                 ELSE k \in DOMAIN CACHE' /\ CACHE'[k] = CACHE[k]]_vars

\* C4: cache_get(key) returns the stored value exactly when an entry exists for
\* key and now - entry.time <= entry.ttl, and None in every other case.
C4_GetReturnsIffFresh ==
    [][call'.op = "get" =>
         LET k == call'.key IN
         call'.ret = IF k \in DOMAIN CACHE /\ now - CACHE[k].time <= CACHE[k].ttl
                     THEN Some(CACHE[k].data)
                     ELSE None]_vars

\* a lookup returned the value of an entry exactly as old as its ttl
C4_Witness ==
    /\ call.op = "get"
    /\ call.ret # None
    /\ call.key \in DOMAIN CACHE
    /\ now - CACHE[call.key].time = CACHE[call.key].ttl
    /\ call.ret = Some(CACHE[call.key].data)

\* C5: a cache_get(key) that finds an entry older than its ttl removes that entry
\* from the store, and no other entry changes.
C5_ExpiredPurged ==
    [][(/\ call'.op = "get"
        /\ call'.key \in DOMAIN CACHE
        /\ now - CACHE[call'.key].time > CACHE[call'.key].ttl) =>
         /\ call'.key \notin DOMAIN CACHE'
         /\ DOMAIN CACHE' = DOMAIN CACHE \ {call'.key}
         /\ \A j \in DOMAIN CACHE' : CACHE'[j] = CACHE[j]]_vars

\* a lookup of the most recently set key, after its ttl, found it gone while
\* another entry stayed
C5_Witness ==
    /\ call.op = "get"
    /\ call.ret = None
    /\ mru # None
    /\ mru[1].key = call.key
    /\ now - mru[1].at > mru[1].ttl
    /\ call.key \notin DOMAIN CACHE
    /\ DOMAIN CACHE # {}

\* C6: cache_set(key, value, ttl) replaces the entry of key by a fresh one stamped
\* with the current time, so a cache_get(key) before ttl has passed since the
\* latest set returns the latest value, whatever the age of the entry it replaced.
C6_SetOverwrites ==
    /\ call.op = "set" =>
          /\ mru # None
          /\ mru[1].key = call.key
          /\ call.key \in DOMAIN CACHE
          /\ CACHE[call.key] = [data |-> mru[1].value, time |-> now, ttl |-> mru[1].ttl]
    /\ (/\ call.op = "get"
        /\ mru # None
        /\ mru[1].key = call.key
        /\ now - mru[1].at <= mru[1].ttl) => call.ret = Some(mru[1].value)

\* a lookup returned the latest value although the entry that the latest set
\* replaced would have expired by then
C6_Witness ==
    /\ call.op = "get"
    /\ mru # None
    /\ mru[1].key = call.key
    /\ mru[1].prev >= 0
    /\ mru[1].prev < mru[1].at
    /\ now - mru[1].prev > mru[1].ttl
    /\ now - mru[1].at <= mru[1].ttl
    /\ call.ret = Some(mru[1].value)

\* C7: make_cache_key gives two inputs the same key exactly when they have the
\* same path and the same key/value pairs, whatever the insertion order.
C7_KeyCanonical ==
    kout # <<>> =>
        (kout[1] = kout[2] <=>
            /\ kin[1].path = kin[2].path
            /\ ItemSet(kin[1].params) = ItemSet(kin[2].params))

\* two maps with the same two pairs in opposite insertion order got one key
C7_Witness ==
    /\ kout # <<>>
    /\ kin[1].path = kin[2].path
    /\ Len(kin[1].params) = 2
    /\ kin[1].params # kin[2].params
    /\ ItemSet(kin[1].params) = ItemSet(kin[2].params)
    /\ kout[1] = kout[2]

\* C2: a read served after a committed write of its resource is never answered
\* from a cache entry computed before that write.
C2_NoStaleReadAfterWrite == ~(resp.cached /\ resp.stale)

\* C3: a handler calls cache_delete_prefix only after db.session.commit() has
\* succeeded; a handler whose commit failed makes no invalidation call.
C3_InvalidateAfterCommit ==
    \A i \in 1..Len(resp.ops) :
        resp.ops[i] = "cache_delete_prefix" =>
            /\ \E j \in 1..(i - 1) : resp.ops[j] = "commit"
            /\ \A j \in 1..Len(resp.ops) : resp.ops[j] \notin {"commit_failed", "rollback"}

C3_Witness ==
    /\ resp.handler = "create_book_copy_v2"
    /\ resp.status = 409
    /\ resp.ops = <<"commit_failed", "rollback">>
    /\ CACHE # <<>>

\* a token jwt.decode accepts at the time of the request: HS256, signed with
\* SECRET_KEY, and without an exp claim or with one in the future
ValidJwt(tok) ==
    /\ tok.form = "jwt"
    /\ tok.alg = "HS256"
    /\ tok.key = SECRET_KEY
    /\ tok.exp = None \/ tok.exp[1] > AUTH_NOW

\* the gate ran in jwt mode on a protected path and took token tok from the request
JwtGateRan(tok) ==
    /\ outcome # None
    /\ config.AUTH_MODE = "jwt"
    /\ ~IsPublicPath(areq.path)
    /\ ExtractToken(areq) = Some(tok)
    /\ tok # EMPTY

\* C8: in jwt mode a validly signed, unexpired token whose id claim names an
\* existing user calls the handler with that user.
C8_JwtValidTokenAuthenticates ==
    \A tok \in Tokens :
        (JwtGateRan(tok) /\ ValidJwt(tok) /\ tok.id # None /\ tok.id[1] \in users) =>
            /\ outcome[1].kind = "handler"
            /\ outcome[1].principal = tok.id

C8_Witness ==
    \E tok \in Tokens :
        /\ JwtGateRan(tok) /\ ValidJwt(tok) /\ tok.exp = None
        /\ tok.id = Some(1) /\ 1 \in users
        /\ areq.cookie = None
        /\ outcome[1].kind = "handler"

\* C9: in jwt mode a token signed with another secret, with an expiry in the
\* past, or that is no JWT is answered 401 "Invalid token: ..." and the handler
\* is not called.
C9_JwtBadTokenRejected ==
    \A tok \in Tokens :
        (/\ JwtGateRan(tok)
         /\ \/ tok.form # "jwt"
            \/ tok.key # SECRET_KEY
            \/ tok.exp # None /\ tok.exp[1] < AUTH_NOW) =>
            /\ outcome[1].kind = "response"
            /\ outcome[1].status = 401
            /\ outcome[1].message[1] = "Invalid token: "

C9_Witness ==
    \E tok \in Tokens :
        /\ JwtGateRan(tok)
        /\ tok.form = "jwt" /\ tok.alg = "HS256" /\ tok.exp = None
        /\ tok.key # SECRET_KEY
        /\ tok.id = Some(1) /\ 1 \in users
        /\ outcome[1].kind = "response"
        /\ outcome[1].status = 401

\* C10: in jwt mode a valid token whose id claim names no user is answered 401
\* with the message "Invalid user", which is not an "Invalid token: ..." answer.
C10_JwtUnknownUserInvalidUser ==
    \A tok \in Tokens :
        (JwtGateRan(tok) /\ ValidJwt(tok) /\ tok.id # None /\ tok.id[1] \notin users) =>
            /\ outcome[1].kind = "response"
            /\ outcome[1].status = 401
            /\ outcome[1].message = <<"Invalid user">>

-----------------------------------------------------------------------------
(* Properties of the gate, all auth modes (SpecAuth) *)

\* the gate has answered the request or called the handler
GateDone == outcome # None /\ outcome[1].kind # "pending"

\* the Authorization header is absent or not exactly "Bearer <token>" with a
\* non-empty token
NoBearerHeader(request) ==
    \/ request.header = None
    \/ Len(request.header[1]) # 2
    \/ request.header[1][1] # Word("Bearer")
    \/ request.header[1][2] = EMPTY

\* C11: a request to a protected path without an auth_token cookie and without
\* a well-formed "Bearer <token>" header is answered 401 "Missing token" under
\* every AUTH_MODE, before the mode is looked at and without an introspection call.
C11_MissingCredential401 ==
    (outcome # None /\ ~IsPublicPath(areq.path) /\ areq.cookie = None /\ NoBearerHeader(areq)) =>
        outcome[1] = Rejected(401, <<"Missing token">>, <<>>, NoReply)

C11_Witness ==
    /\ outcome # None
    /\ ~IsPublicPath(areq.path)
    /\ areq.cookie = None
    /\ areq.header # None /\ Len(areq.header[1]) = 3
    /\ config.AUTH_MODE = "saml"
    /\ outcome[1].status = 401

\* the gate ran to its end in oauth2 mode on a protected path with a token
OAuth2GateRan ==
    /\ GateDone
    /\ config.AUTH_MODE = "oauth2"
    /\ ~IsPublicPath(areq.path)
    /\ ~Falsy(ExtractToken(areq))

\* the response is a rejection with this status and this message
RejectedWith(status, message) ==
    /\ outcome[1].kind = "response"
    /\ outcome[1].status = status
    /\ outcome[1].message[1] = message

\* C12: in oauth2 mode the first failing check, in the order URL not configured
\* (500), network failure (502), status other than 200 (401), unparsable body
\* (502), inactive (401), subject missing (401), user not found (401), decides
\* the response, and the handler is called with the resolved user only when
\* every check passes.
C12_IntrospectionCheckOrder ==
    OAuth2GateRan =>
        LET r == outcome[1].reply IN
        IF config.OAUTH2_INTROSPECTION_URL = None
        THEN RejectedWith(500, "OAuth2 introspection URL not configured")
        ELSE IF r.kind = "network_error"
        THEN RejectedWith(502, "Introspection request failed: ")
        ELSE IF r.status # 200
        THEN RejectedWith(401, "Token introspection failed")
        ELSE IF r.body # "json_object"
        THEN outcome[1].kind = "response" /\ outcome[1].status = 502
        ELSE IF r.active # Some(TRUE)
        THEN RejectedWith(401, "Token inactive")
        ELSE IF r.sub = None
        THEN RejectedWith(401, "User id not present in introspection response")
        ELSE IF r.sub[1] \notin users
        THEN RejectedWith(401, "User not found")
        ELSE outcome[1].kind = "handler" /\ outcome[1].principal = r.sub

\* C13: in oauth2 mode a 200 answer that is a JSON object whose active field is
\* false or absent is answered 401 "Token inactive", whatever its other fields.
C13_InactiveRejected ==
    (/\ OAuth2GateRan
     /\ outcome[1].reply.kind = "http"
     /\ outcome[1].reply.status = 200
     /\ outcome[1].reply.body = "json_object"
     /\ outcome[1].reply.active \in {None, Some(FALSE)}) =>
        RejectedWith(401, "Token inactive")

C13_Witness ==
    /\ OAuth2GateRan
    /\ outcome[1].reply.status = 200
    /\ outcome[1].reply.body = "json_object"
    /\ outcome[1].reply.active = None
    /\ outcome[1].reply.sub = Some(1)
    /\ 1 \in users
    /\ outcome[1].status = 401

\* C14: in oauth2 mode with a URL configured the gate makes exactly one
\* introspection call, with the token of the request, and with HTTP Basic auth
\* exactly when the client id and the client secret are both configured.
C14_OneCallBasicAuthIffBoth ==
    (OAuth2GateRan /\ config.OAUTH2_INTROSPECTION_URL # None) =>
        outcome[1].calls =
            <<[token |-> ExtractToken(areq)[1],
               auth |-> (/\ config.OAUTH2_INTROSPECTION_CLIENT_ID # None
                         /\ config.OAUTH2_INTROSPECTION_CLIENT_SECRET # None)]>>

C14_Witness ==
    /\ OAuth2GateRan
    /\ config.OAUTH2_INTROSPECTION_CLIENT_ID # None
    /\ config.OAUTH2_INTROSPECTION_CLIENT_SECRET = None
    /\ Len(outcome[1].calls) = 1
    /\ ~outcome[1].calls[1].auth
    /\ outcome[1].kind = "handler"

\* C15: in oauth2 mode with a token and no introspection URL configured the
\* request is answered 500 and no introspection call is made.
C15_NoUrl500 ==
    (OAuth2GateRan /\ config.OAUTH2_INTROSPECTION_URL = None) =>
        /\ RejectedWith(500, "OAuth2 introspection URL not configured")
        /\ outcome[1].calls = <<>>

C15_Witness ==
    /\ OAuth2GateRan
    /\ config.OAUTH2_INTROSPECTION_URL = None
    /\ areq.cookie # None /\ areq.cookie # Some(EMPTY)
    /\ outcome[1].status = 500

\* C16: in oauth2 mode a network failure of the introspection call (a timeout
\* included) is answered 502 "Introspection request failed: ...", and a request
\* blocked in the call is eventually answered, because the call has a timeout.
C16_UnreachableRejected ==
    /\ [](( /\ OAuth2GateRan
            /\ outcome[1].reply.kind = "network_error") =>
              RejectedWith(502, "Introspection request failed: "))
    /\ ((outcome = Some(Pending)) ~> GateDone)

C16_Witness ==
    /\ OAuth2GateRan
    /\ outcome[1].reply.kind = "network_error"
    /\ outcome[1].status = 502
    /\ Len(outcome[1].calls) = 1

\* C17: in oauth2 mode a 200 answer whose body is not JSON, or is JSON but not
\* an object, is answered 502.
C17_MalformedBody502 ==
    (/\ OAuth2GateRan
     /\ outcome[1].reply.kind = "http"
     /\ outcome[1].reply.status = 200
     /\ outcome[1].reply.body # "json_object") =>
        /\ outcome[1].kind = "response"
        /\ outcome[1].status = 502

\* C18: with a token present an AUTH_MODE other than 'jwt' and 'oauth2' is
\* answered 500 "Unknown AUTH_MODE: ...", without an introspection call and
\* without calling the handler.
C18_UnknownMode500 ==
    (/\ GateDone
     /\ ~IsPublicPath(areq.path)
     /\ ~Falsy(ExtractToken(areq))
     /\ config.AUTH_MODE \notin {"jwt", "oauth2"}) =>
        /\ RejectedWith(500, "Unknown AUTH_MODE: ")
        /\ outcome[1].calls = <<>>

C18_Witness ==
    /\ GateDone
    /\ ~IsPublicPath(areq.path)
    /\ ExtractToken(areq) = Some(Token("jwt", SECRET_KEY, "HS256", None, Some(1)))
    /\ 1 \in users
    /\ config.AUTH_MODE = "saml"
    /\ config.OAUTH2_INTROSPECTION_URL # None
    /\ outcome[1].status = 500

\* C19: a request whose path starts with /swagger, /apidocs or /flasgger_static,
\* or is /openapi.yaml, calls the handler with no principal, whatever its
\* cookie and header and whatever the configuration, without an introspection call.
C19_PublicPathBypass ==
    (/\ outcome # None
     /\ \/ startswith(areq.path, PATH_SWAGGER)
        \/ startswith(areq.path, PATH_APIDOCS)
        \/ startswith(areq.path, PATH_FLASGGER_STATIC)
        \/ areq.path = PATH_OPENAPI_YAML) =>
        outcome[1] = Called(None, <<>>, NoReply)

C19_Witness ==
    /\ outcome # None
    /\ areq.path = PATH_APIDOCS \o <<"/">>
    /\ areq.cookie = None
    /\ areq.header = None
    /\ config.AUTH_MODE = "oauth2"
    /\ config.OAUTH2_INTROSPECTION_URL = None
    /\ outcome[1].kind = "handler"

\* C20: on a path that is not public the handler is called only with a
\* principal that is a row of table user; a rejected request never calls it.
C20_HandlerOnlyWithUser ==
    (GateDone /\ ~IsPublicPath(areq.path)) =>
        \/ /\ outcome[1].kind = "handler"
           /\ outcome[1].principal # None
           /\ outcome[1].principal[1] \in users
        \/ /\ outcome[1].kind = "response"
           /\ outcome[1].status \in {401, 500, 502}
           /\ outcome[1].principal = None

C20_Witness ==
    /\ GateDone
    /\ ~IsPublicPath(areq.path)
    /\ config.AUTH_MODE = "oauth2"
    /\ outcome[1].kind = "handler"
    /\ outcome[1].principal = Some(1)
    /\ outcome[1].reply.sub = Some(1)

-----------------------------------------------------------------------------
(* Properties of the gate as a whole (SpecAuth) *)

\* the responses the gate itself produces: the status and the head of the
\* message of each jsonify(...)/abort(...) of token_required
GateRejections ==
    {<<401, "Missing token">>, <<401, "Invalid token: ">>,
     <<500, "OAuth2 introspection URL not configured">>,
     <<401, "Token introspection failed">>, <<401, "Token inactive">>,
     <<401, "User id not present in introspection response">>, <<401, "User not found">>,
     <<502, "Introspection request failed: ">>,
     <<502, "Invalid JSON from introspection endpoint">>,
     <<500, "Unknown AUTH_MODE: ">>}

\* C21: whatever the credential, the mode, the configuration and the
\* introspection answer, a gate that does not call the handler ends in one of
\* its own rejections with that rejection's status; no exception leaves it
\* unhandled.
C21_OnlyEnumeratedRejections ==
    (GateDone /\ outcome[1].kind = "response") =>
        <<outcome[1].status, outcome[1].message[1]>> \in GateRejections

\* C24: no step of the gate changes the user table, the other tables or the
\* cache, whatever the outcome; the gate makes at most one introspection call,
\* and none outside oauth2 mode.
C24_AuthenticationChangesNoState ==
    /\ [][outcome' # outcome =>
            /\ users' = users
            /\ titles' = titles /\ copies' = copies /\ borrowings' = borrowings
            /\ CACHE' = CACHE]_vars
    /\ [](GateDone =>
            /\ Len(outcome[1].calls) <= 1
            /\ Len(outcome[1].calls) = 1 => config.AUTH_MODE = "oauth2")

\* an introspected request reached the handler, with a user table, tables and a
\* cache that are not empty
C24_Witness ==
    /\ GateDone
    /\ outcome[1].kind = "handler"
    /\ Len(outcome[1].calls) = 1
    /\ users # {}
    /\ CACHE # <<>> /\ titles # <<>> /\ copies # <<>> /\ borrowings # <<>>

\* C25: with a non-empty auth_token cookie the gate decides as it would for the
\* same request without an Authorization header, and in jwt mode calls the
\* handler exactly when the cookie token is valid and names a user; without a
\* cookie, or with an empty one, a "Bearer <token>" header decides as that token
\* would as a cookie.
C25_CookiePreferred ==
    (GateDone /\ ~IsPublicPath(areq.path)) =>
        IF areq.cookie # None /\ areq.cookie[1] # EMPTY
        THEN /\ outcome[1] = token_required([areq EXCEPT !.header = None], config, users,
                                            outcome[1].reply)
             /\ config.AUTH_MODE = "jwt" =>
                    (outcome[1].kind = "handler" <=>
                        /\ ValidJwt(areq.cookie[1])
                        /\ areq.cookie[1].id # None
                        /\ areq.cookie[1].id[1] \in users)
             /\ \A i \in 1..Len(outcome[1].calls) : outcome[1].calls[i].token = areq.cookie[1]
        ELSE ~NoBearerHeader(areq) =>
                outcome[1] = token_required([areq EXCEPT !.cookie = Some(areq.header[1][2]),
                                                         !.header = None],
                                            config, users, outcome[1].reply)

\* the cookie is no JWT, the header carries a token jwt mode accepts for an
\* existing user, and the request is answered 401
C25_Witness ==
    /\ GateDone
    /\ config.AUTH_MODE = "jwt"
    /\ ~IsPublicPath(areq.path)
    /\ areq.cookie = Some(GARBAGE)
    /\ areq.header = Some(<<Word("Bearer"), Token("jwt", SECRET_KEY, "HS256", None, Some(1))>>)
    /\ users = {1}
    /\ outcome[1].kind = "response"
    /\ outcome[1].status = 401

-----------------------------------------------------------------------------
(* Properties of borrow_book and return_book (SpecLoans, Spec) *)

\* the borrowings of a copy that are not returned
Unreturned(B, copy_id) == {b \in DOMAIN B : B[b].book_copy_id = copy_id /\ ~B[b].returned}

\* C27: when only borrow and return requests touch the available flags, every
\* copy has at most one unreturned borrowing and is unavailable exactly when
\* it has one; a return request for a borrowing that is returned already can
\* only be answered 400 with the tables left as they are.
C27_LoanConsistency ==
    /\ \A c \in DOMAIN copies :
        /\ Cardinality(Unreturned(borrowings, c)) <= 1
        /\ copies[c].available <=> Unreturned(borrowings, c) = {}
    /\ \A b \in DOMAIN borrowings :
        borrowings[b].returned =>
            /\ ENABLED (ReturnBook({b}) /\ resp'.status = 400 /\ UNCHANGED dbVars)
            /\ ~ENABLED (ReturnBook({b}) /\ ~(resp'.status = 400 /\ UNCHANGED dbVars))

\* a copy was borrowed, returned and borrowed again, and a second return of the
\* first borrowing was answered 400
C27_Witness ==
    /\ resp.handler = "return_book"
    /\ resp.status = 400
    /\ \E b1, b2 \in DOMAIN borrowings :
        /\ borrowings[b1].book_copy_id = borrowings[b2].book_copy_id
        /\ borrowings[b1].returned
        /\ ~borrowings[b2].returned
        /\ ~copies[borrowings[b2].book_copy_id].available

\* C29: a step in which borrow_book or return_book answers 500 leaves the
\* tables as they were: no borrowing is created or marked returned and no
\* available flag changes, wherever in the try block the exception rose.
C29_Failure500ChangesNothing ==
    [][(resp'.handler \in {"borrow_book", "return_book"} /\ resp'.status = 500) =>
          UNCHANGED dbVars]_vars

-----------------------------------------------------------------------------
(* Properties of the cache under concurrent requests (SpecRace, SpecReadRace) *)

\* C22: a cache_set of one thread leaves the entries of every other key as they
\* were and its own key holding its value; a cache_get returns None or the whole
\* value one cache_set call stored under that key, read from an entry that has
\* all its fields.
C22_ConcurrentSetsKeepEntriesWhole ==
    /\ [][\A t \in Threads :
            (thr[t].pc = "set_store" /\ thr'[t].pc = "done") =>
                /\ thr[t].key \in DOMAIN CACHE'
                /\ CACHE'[thr[t].key].data = thr[t].value
                /\ \A k \in DOMAIN CACHE \ {thr[t].key} :
                    k \in DOMAIN CACHE' /\ CACHE'[k] = CACHE[k]]_vars
    /\ [](\A t \in Threads :
            /\ (thr[t].op = "get" /\ thr[t].pc = "done" /\ thr[t].ret # None) =>
                   \E u \in Threads : thr[t].ret[1] = RaceValue(u, thr[t].key)
            /\ thr[t].entry # None =>
                   /\ DOMAIN thr[t].entry[1] = {"data", "time", "ttl"}
                   /\ \E u \in Threads : thr[t].entry[1].data = RaceValue(u, thr[t].key)
                   /\ thr[t].entry[1].time \in 0..now
                   /\ thr[t].entry[1].ttl \in TtlValues)

\* both threads have stored a value under the same key and under another key,
\* and a lookup of thread 1 has returned the value of thread 2
C22_Witness ==
    /\ Cardinality(DOMAIN CACHE) = 2
    /\ \E k \in DOMAIN CACHE : CACHE[k].data = RaceValue(1, k)
    /\ thr[1].op = "get" /\ thr[1].pc = "done"
    /\ thr[1].ret = Some(RaceValue(2, thr[1].key))
    /\ thr[2].op = "set" /\ thr[2].pc = "set_store" /\ thr[2].key = thr[1].key

\* C23: no cache call raises, however the calls of two requests interleave.
C23_NoCacheCallRaises == \A t \in DOMAIN thr : ~thr[t].raised

\* C30: the lazy deletion of cache_get removes only an entry that is expired
\* when it is removed.
C30_LazyDeleteSparesFreshEntry ==
    [][\A t \in Threads :
          (/\ thr[t].pc = "get_del"
           /\ thr'[t].pc = "done"
           /\ thr[t].key \in DOMAIN CACHE
           /\ thr[t].key \notin DOMAIN CACHE') =>
              Expired(CACHE[thr[t].key], now)]_vars

\* C26: whenever a read handler answers from the cache, the result it answers
\* with was computed from the tables at most CACHE_TTL before.
C26_HitNoOlderThanTtl ==
    [][\A t \in Threads :
          (/\ thr[t].handler = "list_book_copies_v1"
           /\ thr[t].pc = "get_check"
           /\ thr'[t].pc = "done"
           /\ thr'[t].ret # None) =>
              now - thr[t].born <= CACHE_TTL]_vars

\* C28: two borrow requests for the same copy never have both been answered 201
\* with the borrowings they created both unreturned.
C28_OneConcurrentBorrowSucceeds ==
    \A t, u \in DOMAIN thr :
        (/\ t # u
         /\ thr[t].op = "borrow" /\ thr[t].status = 201
         /\ thr[u].op = "borrow" /\ thr[u].status = 201
         /\ thr[t].target = thr[u].target) =>
            \/ borrowings[thr[t].row].returned
            \/ borrowings[thr[u].row].returned

====
